---- MODULE Spec2Model ----
(***************************************************************************)
(* Model of .github/scripts/audit_agent.py (GoodWatch audit agent).        *)
(*                                                                         *)
(* One process executes main(): configuration check, the ten sections      *)
(* run_section_a .. run_section_j in order, publish_results, the per-      *)
(* section skip-rate table and the exit decision.  Every section is one    *)
(* action that appends to the process-wide list `results` exactly the      *)
(* records its code appends, in code order, or stops at the first          *)
(* statement that raises.  The inputs of a run (environment variables,     *)
(* the source tree, the remote service, the web site) are drawn in Init    *)
(* and stay fixed; the remote table protected_file_hashes is state,        *)
(* because section D writes it.                                            *)
(***************************************************************************)
EXTENDS Integers, Sequences, FiniteSets, TLC

VARIABLES
    env,                    \* the inputs of the run (fixed)
    pc,                     \* position of the process in main()
    run_no,                 \* number of the current invocation
    results,                \* the process-wide list `results`
    exit_code,              \* process exit status, None while running
    run_data,               \* the summary record built by publish_results
    summary,                \* the dictionary publish_results returned
    prev_summary,           \* summary of the previous invocation
    protected_file_hashes,  \* remote table: file name -> approved_hash
    audit_runs_posts,       \* number of POST audit_runs issued so far
    audit_results_posts,    \* bodies of the POST audit_results of this process
    fallback_file,          \* content of /tmp/goodwatch_audit_results.json
    compliance,             \* the per-section skip-rate table
    call                    \* a supabase_query call on its own: request and reply

vars == <<env, pc, run_no, results, exit_code, run_data, summary, prev_summary,
          protected_file_hashes, audit_runs_posts, audit_results_posts,
          fallback_file, compliance, call>>

None == "None"
\* a variable that holds no value yet, and one that holds x
Unset == <<>>
Some(x) == <<x>>
Text == "text"

\* ------------------------------------------------------------------------
\* Bounds of the model (not program constants)
\* ------------------------------------------------------------------------
MaxRuns == 2
MaxCount == 8
MaxWarn == 2
MaxTotal == 20
MaxRows == 2
MaxSample == 3

\* ------------------------------------------------------------------------
\* Program constants
\* ------------------------------------------------------------------------
BatchSize == 50

\* ------------------------------------------------------------------------
\* Result model and recorder
\* ------------------------------------------------------------------------
Statuses == {"pass", "fail", "warn", "skip"}

\* variant of add_result: the diagnostics are not stored
add_result_NoDiagnostics(rs, check_id, section, severity, status, expected, actual, detail) ==
    Append(rs, [check_id |-> check_id, section |-> section,
                severity |-> severity, status |-> status,
                expected_value |-> None, actual_value |-> None,
                detail |-> None])

add_result(rs, check_id, section, severity, status, expected, actual, detail) ==
    Append(rs, [check_id |-> check_id, section |-> section,
                severity |-> severity, status |-> status,
                expected_value |-> expected, actual_value |-> actual,
                detail |-> detail])

check(rs, check_id, section, severity, condition, expected, actual, detail) ==
    add_result(rs, check_id, section, severity,
               IF condition THEN "pass" ELSE "fail", expected, actual,
               IF ~condition /\ detail = None THEN Text ELSE detail)

infra_pass(rs, check_id, section, severity) ==
    add_result(rs, check_id, section, severity, "pass", None, None, Text)

\* variant of prereq_fail: a status of its own for a missing prerequisite
prereq_fail_Missing(rs, check_id, section, severity) ==
    add_result(rs, check_id, section, severity, "missing", None, None, Text)

prereq_fail(rs, check_id, section, severity) ==
    add_result(rs, check_id, section, severity, "fail", None, None, Text)

Recorded(rs, check_id) == \E i \in 1..Len(rs) : rs[i].check_id = check_id

\* ------------------------------------------------------------------------
\* Statements of a section, executed in order by Exec.  `guarded` is the
\* source's `if not any(r["check_id"] == cid for r in results)`.
\* ------------------------------------------------------------------------
Stmt(kind, guarded, check_id, severity, condition, status, expected, actual, detail) ==
    [kind |-> kind, guarded |-> guarded, check_id |-> check_id,
     severity |-> severity, condition |-> condition, status |-> status,
     expected |-> expected, actual |-> actual, detail |-> detail]

\* check(id, ..., condition, expected, actual) with no detail argument
Chk(check_id, severity, condition) ==
    Stmt("check", FALSE, check_id, severity, condition, None, Text, Text, None)
\* check(...) with an explicit detail argument (None or a string)
ChkD(check_id, severity, condition, detail) ==
    Stmt("check", FALSE, check_id, severity, condition, None, Text, Text, detail)
\* variant of Pre: a missing prerequisite is recorded as skip
Pre_Skip(check_id, severity) ==
    Stmt("add_result", FALSE, check_id, severity, TRUE, "skip", None, None, Text)
Pre(check_id, severity) ==
    Stmt("prereq_fail", FALSE, check_id, severity, FALSE, None, None, None, Text)
Infra(check_id, severity) ==
    Stmt("infra_pass", FALSE, check_id, severity, TRUE, None, None, None, Text)
Add(check_id, severity, status, expected, actual, detail) ==
    Stmt("add_result", FALSE, check_id, severity, TRUE, status, expected, actual, detail)
Raise == Stmt("raise", FALSE, "", "", FALSE, None, None, None, None)

Guard(s) == [s EXCEPT !.guarded = TRUE]

RECURSIVE GuardAll(_)
GuardAll(ss) == IF ss = <<>> THEN <<>> ELSE <<Guard(Head(ss))>> \o GuardAll(Tail(ss))

ExecStmt(rs, section, s) ==
    IF s.guarded /\ Recorded(rs, s.check_id) THEN rs
    ELSE CASE s.kind = "check" ->
                check(rs, s.check_id, section, s.severity, s.condition,
                      s.expected, s.actual, s.detail)
           [] s.kind = "prereq_fail" -> prereq_fail(rs, s.check_id, section, s.severity)
           [] s.kind = "infra_pass" -> infra_pass(rs, s.check_id, section, s.severity)
           [] s.kind = "add_result" ->
                add_result(rs, s.check_id, section, s.severity, s.status,
                           s.expected, s.actual, s.detail)

\* the statements ss[lo..hi] in order, stopping at the first one that raises
RECURSIVE ExecRange(_, _, _, _, _)
ExecRange(rs, section, ss, lo, hi) ==
    IF lo > hi THEN [results |-> rs, raised |-> FALSE]
    ELSE IF lo = hi
    THEN (IF ss[lo].kind = "raise" THEN [results |-> rs, raised |-> TRUE]
          ELSE [results |-> ExecStmt(rs, section, ss[lo]), raised |-> FALSE])
    ELSE LET mid == (lo + hi) \div 2
             left == ExecRange(rs, section, ss, lo, mid)
         IN  IF left.raised THEN left
             ELSE ExecRange(left.results, section, ss, mid + 1, hi)

Exec(rs, section, ss) == ExecRange(rs, section, ss, 1, Len(ss))

\* ------------------------------------------------------------------------
\* Inputs of a run.  The fields of env:
\*   config         "ok" | "missing"   SUPABASE_URL and SUPABASE_SERVICE_ROLE_KEY
\*   IOS_REPO_PATH  ""  | "file" | "dir"   unset / set but not a directory / a directory
\*   tree           contents of the directory:
\*                    "empty"       no file of any searched name
\*                    "unreadable"  files are found, opening them fails
\*                    "bare"        files are readable, none of the searched text occurs
\*                    "clean"       the feature text occurs, no violation text
\*                    "dirty"       feature text and violation text occur
\*   host           "ci"       IS_CI, git works, xcodebuild/xcrun not installed
\*                  "mac"      local, git works, xcodebuild builds and tests succeed
\*                  "mac_red"  local, git works, xcodebuild runs, build and tests fail
\*                  "plain"    local, neither git nor xcodebuild installed
\*   remote         behaviour of the remote data service with the service key
\*                    "good"      200, rows and counts that satisfy every check
\*                    "bad"       200, rows and counts that violate the checks
\*                    "empty"     200, no rows, count 0
\*                    "malformed" 200, nested values that parse to a non-mapping
\*                    "no_count"  200, good rows, no count in Content-Range
\*                    "denied"    401, no data
\*                    "down"      transport failure, status 0
\*                    "no_scheme" SUPABASE_URL is set but has no scheme
\*   approved       stored approved_hash of the protected files
\*   anon           answer to reads with the anonymous key on user tables
\*   web            "up" | "stale" | "down", slow: responses over the time limits
\*   post           answer to POST audit_runs; tmp_writable: /tmp can be written
\* ------------------------------------------------------------------------
repo_set == env.IOS_REPO_PATH # ""
repo_isdir == env.IOS_REPO_PATH = "dir"
IS_CI == env.host = "ci"

\* find_file(IOS_REPO_PATH, name) is not None
find_file == repo_isdir /\ env.tree # "empty"
\* os.path.isfile(os.path.join(IOS_REPO_PATH, name))
isfile == repo_isdir /\ env.tree # "empty"
\* open(path).read() succeeds
readable == env.tree # "unreadable"
\* a searched feature literal occurs in the content of a file that was read
contains == env.tree \in {"clean", "dirty"}
\* a violation literal occurs in the content
violates == env.tree = "dirty"

\* len(search_swift_for(pattern)) for a feature pattern / a violation pattern
search_swift_for(kind) ==
    IF ~repo_set \/ ~repo_isdir THEN 0
    ELSE IF kind = "feature" THEN (IF contains THEN 10 ELSE 0)
    ELSE (IF violates THEN 60 ELSE 0)

\* read_swift_file(name) != ""
read_swift_file == repo_set /\ find_file /\ readable

\* http_check(url): "home" is WEBSITE_URL itself, "page" any other path
http_check(url) ==
    CASE env.web = "up" -> 200
      [] env.web = "stale" -> (IF url = "home" THEN 200 ELSE 404)
      [] env.web = "down" -> 0

\* http_get(url) != "" ; the body has the expected elements only when "up"
http_get(url) == env.web = "up" \/ (env.web = "stale" /\ url = "home")
body_good == env.web = "up"

\* ------------------------------------------------------------------------
\* Section J: Security & Compliance
\* ------------------------------------------------------------------------
SectionJ ==
    <<Chk("J01", "critical", TRUE)>>
    \o (IF repo_set THEN <<Chk("J02", "critical", search_swift_for("violation") = 0)>>
        ELSE <<Pre("J02", "critical")>>)
    \o (IF repo_set THEN <<Chk("J03", "critical", search_swift_for("feature") > 0)>>
        ELSE <<Pre("J03", "critical")>>)
    \o (IF repo_set THEN <<Chk("J04", "critical", search_swift_for("feature") > 0)>>
        ELSE <<Pre("J04", "critical")>>)
    \o <<Chk("J05", "critical",
             (IF http_check("page") # 200 THEN http_check("page") ELSE 200) = 200)>>
    \o (LET tos_status == IF http_check("page") # 200 THEN http_check("page") ELSE 200
        IN <<ChkD("J06", "high", tos_status = 200,
                  IF tos_status # 200 THEN Text ELSE None)>>)
    \o (IF repo_set THEN <<Chk("J07", "high", search_swift_for("feature") > 0)>>
        ELSE <<Pre("J07", "high")>>)
    \o (IF repo_set THEN <<Chk("J08", "high", search_swift_for("violation") <= 3)>>
        ELSE <<Pre("J08", "high")>>)
    \o <<Chk("J09", "medium", TRUE)>>
    \o (IF repo_set THEN <<Chk("J10", "critical", search_swift_for("violation") = 0)>>
        ELSE <<Pre("J10", "critical")>>)

\* count = None: the reply carries no total in its Content-Range header
NoCount == -1

\* ------------------------------------------------------------------------
\* Remote query client.  supabase_query(cnt, rows) is the answer to a GET
\* whose true total is cnt and whose page holds `rows` rows; data is the
\* number of rows in the answer.
\* ------------------------------------------------------------------------
\* the count of a Content-Range header "<range>/<total>"; a header is
\* [slash |-> the text holds "/", total |-> "*", "digits" or "text" (what
\* follows the last "/"), value |-> the number the digits spell]
ParseCount(content_range) ==
    IF content_range.slash /\ content_range.total # "*"
    THEN (IF content_range.total = "digits"
          THEN [ok |-> TRUE, count |-> content_range.value]
          ELSE [ok |-> FALSE, count |-> NoCount])      \* int() raises ValueError
    ELSE [ok |-> TRUE, count |-> NoCount]

\* json.loads(body_text) if body_text else []; a body is
\* [text |-> "" (empty), "json" (a list) or "garbage", rows |-> its rows]
ParseBody(body) ==
    CASE body.text = "" -> [ok |-> TRUE, data |-> 0]
      [] body.text = "json" -> [ok |-> TRUE, data |-> body.rows]
      [] body.text = "garbage" -> [ok |-> FALSE, data |-> 0]

\* one call of supabase_query on the wire situation w:
\*   w.built   json.dumps(body) and urllib.request.Request(...) succeed
\*   w.kind    "response" | "http_error" | "transport_error"
\*   w.status, w.body, w.content_range   the response or the error code
\* raised: the call ends with an exception instead of a record
supabase_request(w) ==
    IF ~w.built
    THEN [raised |-> TRUE, data |-> 0, count |-> NoCount, status |-> 0, error |-> FALSE]
    ELSE CASE w.kind = "response" ->
                (IF ParseBody(w.body).ok /\ ParseCount(w.content_range).ok
                 THEN [raised |-> FALSE, data |-> ParseBody(w.body).data,
                       count |-> ParseCount(w.content_range).count,
                       status |-> w.status, error |-> FALSE]
                 ELSE [raised |-> FALSE, data |-> 0, count |-> NoCount,
                       status |-> 0, error |-> TRUE])
           [] w.kind = "http_error" ->
                [raised |-> FALSE, data |-> 0, count |-> NoCount,
                 status |-> w.status, error |-> TRUE]
           [] w.kind = "transport_error" ->
                [raised |-> FALSE, data |-> 0, count |-> NoCount,
                 status |-> 0, error |-> TRUE]

Response(status, rows, content_range) ==
    [built |-> TRUE, kind |-> "response", status |-> status,
     body |-> [text |-> "json", rows |-> rows], content_range |-> content_range]
Failure(built, kind, status) ==
    [built |-> built, kind |-> kind, status |-> status,
     body |-> [text |-> "", rows |-> 0],
     content_range |-> [slash |-> FALSE, total |-> "*", value |-> 0]]

\* what the service answers, by env.remote, to a GET whose true total is cnt
\* and whose page holds `rows` rows
Wire(cnt, rows) ==
    CASE env.remote \in {"good", "bad", "malformed"} ->
            Response(200, rows, [slash |-> TRUE, total |-> "digits", value |-> cnt])
      [] env.remote = "no_count" ->
            Response(200, rows, [slash |-> TRUE, total |-> "*", value |-> 0])
      [] env.remote = "empty" ->
            Response(200, 0, [slash |-> TRUE, total |-> "digits", value |-> 0])
      [] env.remote = "denied" -> Failure(TRUE, "http_error", 401)
      [] env.remote = "down" -> Failure(TRUE, "transport_error", 0)
      [] env.remote = "no_scheme" -> Failure(FALSE, "transport_error", 0)

\* the request of every supabase_query call can be built
request_builds == env.remote # "no_scheme"

supabase_query(cnt, rows) ==
    LET out == supabase_request(Wire(cnt, rows))
    IN  [data |-> out.data, count |-> out.count, status |-> out.status]

supabase_ok(r) == r.status \in {200, 206}

\* r.get("count", 0) or 0
CountOr0(r) == IF r.count = NoCount THEN 0 ELSE r.count
\* r.get("count", 0) or len(r.get("data", []))
CountOrLen(r) == IF r.count = NoCount \/ r.count = 0 THEN r.data ELSE r.count

\* what the tables hold: the first value unless the data is "bad"
db(goodv, badv) == IF env.remote = "bad" THEN badv ELSE goodv
\* a nested value of a returned row is (or parses to) a list, not a mapping
malformed == env.remote = "malformed"

\* ------------------------------------------------------------------------
\* Section A: Data Integrity
\* ------------------------------------------------------------------------
\* variant of A02Status: the warn band starts at 80 as for the other fields
A02Status_SharedBands(total, nulls) ==
    IF total > 0 /\ (total - nulls) * 100 >= 95 * total THEN "pass"
    ELSE IF total > 0 /\ (total - nulls) * 100 >= 80 * total THEN "warn"
    ELSE "fail"

\* A02: >= 95 pass, >= 90 warn, else fail; the percentage is 0 when total = 0
A02Status(total, nulls) ==
    IF total > 0 /\ (total - nulls) * 100 >= 95 * total THEN "pass"
    ELSE IF total > 0 /\ (total - nulls) * 100 >= 90 * total THEN "warn"
    ELSE "fail"

\* A08, A11, A12: >= 95 pass, >= 80 warn, else fail
CoverageStatus(total, nulls) ==
    IF total > 0 /\ (total - nulls) * 100 >= 95 * total THEN "pass"
    ELSE IF total > 0 /\ (total - nulls) * 100 >= 80 * total THEN "warn"
    ELSE "fail"

\* pct >= limit where pct = part / total * 100 if total > 0 else 0
PctAtLeast(part, total, limit) == total > 0 /\ part * 100 >= limit * total

\* spot_check: `found` titles returned a row, `satisfying` of them meet the
\* threshold; pass_rate is over the titles that were checked
spot_check(check_id, found, satisfying) ==
    LET passed == satisfying
        failed_titles == found - satisfying
        total_checked == passed + failed_titles
    IN  ChkD(check_id, "high", PctAtLeast(passed, total_checked, 70),
             IF failed_titles > 0 THEN Text ELSE None)

\* movies?select=id&limit=1: the count of the movies table
A_total == CountOr0(supabase_query(env.total, 1))
\* movies?select=id&<field>=is.null&limit=1: the count of rows without the field
A_nulls == CountOr0(supabase_query(env.nulls, IF env.nulls > 0 THEN 1 ELSE 0))

A_field(field_id, severity, coverage) ==
    LET nulls == A_nulls
    IN  IF coverage
        THEN Add(field_id, severity, CoverageStatus(A_total, nulls), Text, Text, None)
        ELSE Chk(field_id, severity, nulls = 0)

A_lang(check_id, min_count) ==
    Chk(check_id, "high", CountOr0(supabase_query(db(min_count, min_count - 1), 1)) >= min_count)

A_spot(check_id) ==
    LET r == supabase_query(1, 1)
        found == IF r.data > 0 THEN 10 ELSE 0
    IN  IF found > 0 /\ malformed THEN Raise
        ELSE spot_check(check_id, found, IF found > 0 THEN db(10, 5) ELSE 0)

SectionA ==
    IF ~request_builds THEN <<Raise>> ELSE
    LET total == A_total
        null_profiles == A_nulls
        r3 == supabase_query(db(20000, 15000), 50)
        r14 == supabase_query(db(20000, 15000), 500)
        r15 == supabase_query(db(0, 7), db(0, 5))
        r16 == supabase_query(db(0, 3), db(0, 3))
        r17 == supabase_query(db(15000, 5000), 1)
        r18 == supabase_query(db(19000, 5000), 1)
        shorts == CountOrLen(r15)
        total_standup == CountOrLen(r16) + CountOrLen(r16)
    IN
    <<Chk("A01", "critical", total >= 19500),
      Add("A02", "critical", A02Status(total, null_profiles), Text, Text, None)>>
    \o (IF r3.data > 0 /\ malformed THEN <<Raise>>
        ELSE <<Chk("A03", "critical", (IF r3.data > 0 THEN db(0, 3) ELSE 0) = 0)>>)
    \o <<Chk("A04", "critical", CountOr0(supabase_query(db(0, 2500), db(0, 1))) = 0),
         Chk("A05", "high",
             (IF r3.data > 0 THEN (IF malformed THEN 50 ELSE db(0, 3)) ELSE 0) = 0)>>
    \o (IF r3.data > 0 /\ malformed THEN <<Raise>>
        ELSE <<Chk("A06", "critical", (IF r3.data > 0 THEN db(0, 3) ELSE 0) = 0),
               Chk("A07", "high", (IF r3.data > 0 THEN db(0, 3) ELSE 0) = 0)>>)
    \o <<A_field("A08", "high", TRUE), A_field("A09", "high", FALSE),
         A_field("A10", "high", FALSE), A_field("A11", "medium", TRUE),
         A_field("A12", "high", TRUE), A_field("A13", "high", FALSE)>>
    \o (IF supabase_ok(r14)
        THEN <<Chk("A14", "critical", (IF r14.data > 0 THEN db(0, 2) ELSE 0) = 0)>>
        ELSE <<Pre("A14", "critical")>>)
    \o <<ChkD("A15", "high", shorts = 0, IF shorts > 0 THEN Text ELSE None),
         ChkD("A16", "high", total_standup = 0,
              IF total_standup > 0 THEN Text ELSE None)>>
    \o (IF supabase_ok(r17)
        THEN <<Chk("A17", "critical", PctAtLeast(CountOr0(r17), total, 60))>>
        ELSE <<Pre("A17", "critical")>>)
    \o (IF supabase_ok(r18)
        THEN <<Chk("A18", "medium", PctAtLeast(CountOr0(r18), total, 90))>>
        ELSE <<Pre("A18", "medium")>>)
    \o <<A_lang("A19_hi", 2000), A_lang("A19_en", 5000),
         A_lang("A19_ta", 1000), A_lang("A19_te", 1000)>>
    \o <<A_spot("A20"), A_spot("A21"), A_spot("A22"), A_spot("A23")>>
    \o <<Chk("A24", "medium", CountOr0(supabase_query(db(0, 40), db(0, 1))) = 0)>>
    \o (LET r == supabase_query(db(20000, 15000), 200)
            missing == IF r.data > 0 /\ ~malformed THEN db(0, 9) ELSE 0
        IN <<Chk("A25", "medium", missing = 0), Chk("A26", "medium", missing = 0),
             Chk("A27", "medium", missing = 0), Chk("A28", "medium", missing = 0),
             Chk("A29", "medium", missing = 0)>>)

\* ------------------------------------------------------------------------
\* Section B: Engine Invariants
\* ------------------------------------------------------------------------
B_source_ids ==
    <<"B01", "B02", "B03", "B04", "B05", "B07", "B08", "B09", "B10",
      "B11", "B12", "B13", "B14", "B15", "B16", "B17", "B18", "B19",
      "B20", "B25", "B26", "B27", "B28", "B29">>

\* variant of B_sweep: the sweep records severity high
B_sweep_High == [i \in 1..Len(B_source_ids) |-> Guard(Pre(B_source_ids[i], "high"))]

\* the sweep `for cid in [...]: if not any(...): prereq_fail(cid, ..., "critical", ...)`
B_sweep == [i \in 1..Len(B_source_ids) |-> Guard(Pre(B_source_ids[i], "critical"))]

B_engine ==
    <<Chk("B01", "critical", contains), Chk("B02", "critical", contains),
      Chk("B04", "critical", contains), Chk("B11", "critical", contains),
      Chk("B16", "critical", contains), Chk("B19", "medium", contains),
      Chk("B03", "high", contains), Chk("B05", "high", contains),
      Chk("B07", "high", contains), Chk("B08", "high", contains),
      Chk("B09", "critical", contains), Chk("B10", "high", contains),
      Chk("B12", "critical", contains), Chk("B13", "critical", contains),
      Chk("B14", "high", contains), Chk("B15", "high", contains)>>
    \o (IF find_file
        THEN <<Chk("B17", "high", contains), Chk("B18", "high", contains)>>
        ELSE <<Pre("B17", "high"), Pre("B18", "high")>>)
    \o <<Chk("B20", "critical", contains), Chk("B25", "high", contains),
         Chk("B26", "critical", contains), Chk("B27", "critical", contains),
         Chk("B28", "high", contains), Chk("B29", "high", contains)>>

SectionB ==
    LET r21 == supabase_query(5, 5)
        r23 == supabase_query(1, 1)
        r24 == supabase_query(8, 8)
        r06 == supabase_query(5, 5)
    IN
    (IF repo_set /\ repo_isdir
     THEN (IF find_file
           THEN (IF readable THEN B_engine ELSE <<Raise>>)
           ELSE B_sweep)
     ELSE B_sweep)
    \o <<Chk("B21", "critical", r21.data > 0 /\ db(TRUE, FALSE)),
         Chk("B22", "high", CountOr0(supabase_query(db(5, 4), 1)) = 5)>>
    \o (IF r23.data > 0
        THEN (IF malformed THEN <<Raise>> ELSE <<Chk("B23", "medium", db(TRUE, FALSE))>>)
        ELSE <<Pre("B23", "medium")>>)
    \o (IF r24.data = 0 THEN <<Pre("B24", "critical")>>
        ELSE <<Chk("B24", "critical", db(TRUE, FALSE))>>)
    \o (IF supabase_ok(r06) /\ r06.data > 0 THEN <<Chk("B06", "critical", TRUE)>>
        ELSE <<Chk("B06", "critical", search_swift_for("feature") > 0)>>)
    \o <<Guard(Chk("B30", "high", search_swift_for("feature") > 0))>>

\* ------------------------------------------------------------------------
\* Section C: User Experience & Retention
\* ------------------------------------------------------------------------
Pad2(i) == IF i < 10 THEN "0" \o ToString(i) ELSE ToString(i)
\* f"{letter}{i:02d}"
CheckId(letter, i) == letter \o Pad2(i)

\* for i in range(1, n + 1): prereq_fail(f"{letter}{i:02d}", ..., "high", ...)
RepoMissing(letter, n) == [i \in 1..n |-> Pre(CheckId(letter, i), "high")]

C_feature(check_id, severity) == Chk(check_id, severity, search_swift_for("feature") > 0)

SectionC ==
    IF ~repo_set \/ ~repo_isdir THEN RepoMissing("C", 35)
    ELSE
    <<Chk("C01", "critical", read_swift_file /\ contains),
      C_feature("C02", "critical"), C_feature("C03", "critical"),
      C_feature("C04", "high"), C_feature("C05", "critical"),
      C_feature("C06", "high"), C_feature("C07", "high"),
      Chk("C08", "high", search_swift_for("feature") > 0),
      ChkD("C09", "critical", ~(isfile /\ readable /\ violates),
           IF isfile /\ readable /\ violates THEN Text ELSE None),
      C_feature("C10", "high"), C_feature("C11", "high"),
      C_feature("C12", "high"), C_feature("C13", "critical"),
      Chk("C14", "high", search_swift_for("feature") >= 3),
      C_feature("C15", "high"), C_feature("C16", "high"),
      C_feature("C17", "high"), C_feature("C18", "medium"),
      C_feature("C19", "medium"), C_feature("C20", "medium"),
      C_feature("C21", "critical"), C_feature("C22", "critical"),
      C_feature("C23", "critical"), C_feature("C24", "high"),
      C_feature("C25", "high"), C_feature("C26", "high"),
      Chk("C27", "high", search_swift_for("violation") = 0),
      C_feature("C28", "high"), C_feature("C29", "medium"),
      Chk("C30", "high", search_swift_for("violation") = 0),
      C_feature("C31", "high"), C_feature("C32", "medium"),
      C_feature("C33", "medium"), C_feature("C34", "low"),
      Chk("C35", "medium", search_swift_for("violation") = 0)>>

\* ------------------------------------------------------------------------
\* Section D: Protected Files & Compliance
\* ------------------------------------------------------------------------
ProtectedFiles ==
    {"GWRecommendationEngine.swift", "Movie.swift", "GWSpec.swift",
     "RootFlowView.swift", "SupabaseConfig.swift"}

\* subprocess.run(["git", ...]) returns (does not raise)
git_runs == env.host # "plain"

\* GET protected_file_hashes?file_path=eq.<fname>&limit=1 given the stored row
HashQuery(stored) == supabase_query(IF stored = "norow" THEN 0 ELSE 1,
                                    IF stored = "norow" THEN 0 ELSE 1)

\* the row is there and its approved_hash is not the pending marker
HasApproved(stored) == HashQuery(stored).data > 0 /\ stored # "PENDING_FIRST_RUN"

\* D07-D10, D18 once the file is found and hashed
HashCheck(check_id, severity, stored) ==
    IF HasApproved(stored)
    THEN (IF stored = "null" THEN Raise
          ELSE Chk(check_id, severity, stored = "current"))
    ELSE Add(check_id, severity, "pass", None, None, Text)

D_hash(check_id, severity, fname, hashes) ==
    IF find_file
    THEN (IF readable THEN HashCheck(check_id, severity, hashes[fname]) ELSE Raise)
    ELSE Pre(check_id, severity)

\* variant of PatchBaseline: the stored value is not the hash that is compared
PatchBaseline_OtherHash(stored) ==
    IF ~HasApproved(stored) /\ stored = "PENDING_FIRST_RUN"
       /\ env.remote \in {"good", "bad", "malformed", "no_count"}
    THEN "other" ELSE stored

\* the PATCH of the baseline branch: it updates the row when there is one
\* and the service accepts the request
PatchBaseline(stored) ==
    IF ~HasApproved(stored) /\ stored = "PENDING_FIRST_RUN"
       /\ env.remote \in {"good", "bad", "malformed", "no_count"}
    THEN "current" ELSE stored

D_claude ==
    IF isfile
    THEN (IF readable
          THEN <<Chk("D11", "high", contains), Chk("D12", "high", contains),
                 Chk("D26", "critical", contains), Chk("D27", "critical", contains),
                 Chk("D28", "high", contains), Chk("D29", "high", contains),
                 Chk("D30", "high", contains)>>
          ELSE <<Raise>>)
    ELSE <<Pre("D11", "high"), Pre("D12", "high"), Pre("D26", "high"),
           Pre("D27", "high"), Pre("D28", "high"), Pre("D29", "high"),
           Pre("D30", "high")>>

SectionD(hashes) ==
    IF ~repo_set \/ ~repo_isdir THEN RepoMissing("D", 30)
    ELSE
    <<Chk("D01", "critical", isfile), Chk("D02", "critical", isfile)>>
    \o (IF IS_CI THEN <<Infra("D03", "critical")>>
        ELSE <<Chk("D03", "critical", isfile)>>)
    \o (IF IS_CI THEN <<Infra("D04", "high"), Infra("D05", "high")>>
        ELSE IF git_runs THEN <<Chk("D04", "high", contains), Chk("D05", "high", contains)>>
        ELSE <<Pre("D04", "high"), Pre("D05", "high")>>)
    \o <<Chk("D06", "high", isfile),
         D_hash("D07", "critical", "GWRecommendationEngine.swift", hashes),
         D_hash("D08", "critical", "Movie.swift", hashes),
         D_hash("D09", "critical", "GWSpec.swift", hashes),
         D_hash("D10", "critical", "RootFlowView.swift", hashes)>>
    \o D_claude
    \o <<Chk("D13", "critical", find_file),
         ChkD("D22", "critical", search_swift_for("violation") = 0,
              IF search_swift_for("violation") > 0 THEN Text ELSE None)>>
    \o (IF find_file
        THEN (IF readable THEN <<Guard(Chk("D14", "critical", contains))>> ELSE <<Raise>>)
        ELSE <<Guard(Chk("D14", "critical", FALSE))>>)
    \o <<Guard(Infra("D15", "critical"))>>
    \o (IF git_runs THEN <<Guard(Chk("D16", "high", TRUE))>>
        ELSE <<Guard(Pre("D16", "high"))>>)
    \o (IF git_runs THEN <<Guard(Chk("D17", "critical", TRUE))>>
        ELSE <<Guard(Pre("D17", "critical"))>>)
    \o (LET s == D_hash("D18", "high", "SupabaseConfig.swift", hashes)
        IN <<IF s.kind = "raise" THEN s ELSE Guard(s)>>)
    \o <<Guard(Chk("D19", "medium", isfile)), Guard(Chk("D20", "medium", isfile))>>
    \o (IF IS_CI THEN <<Guard(Infra("D21", "high"))>>
        ELSE <<Guard(Chk("D21", "high", isfile))>>)
    \o <<Guard(Chk("D23", "critical", search_swift_for("violation") = 0)),
         Guard(Chk("D24", "medium", find_file))>>
    \o (IF isfile
        THEN (IF readable THEN <<Guard(Chk("D25", "medium", contains))>> ELSE <<Raise>>)
        ELSE <<Guard(Pre("D25", "medium"))>>)

\* ------------------------------------------------------------------------
\* Section E: Website & SEO
\* ------------------------------------------------------------------------
\* `if body: check(...) else: prereq_fail(...)` on the homepage body
E_body(check_id, severity, condition) ==
    IF http_get("home") THEN Chk(check_id, severity, condition) ELSE Pre(check_id, severity)
\* the same on the body of a movie page
E_page(check_id, severity, condition) ==
    IF http_get("page") THEN Chk(check_id, severity, condition) ELSE Pre(check_id, severity)

SectionE ==
    LET status == http_check("home")
        ok_pages(n) == IF http_check("page") = 200 THEN n ELSE 0
    IN
    <<Chk("E01", "critical", status = 200),
      E_body("E02", "high", body_good),
      Chk("E03", "high", http_check("page") = 200),
      Chk("E04", "critical", ok_pages(5) >= 3),
      Chk("E10", "high", http_check("page") = 200),
      Chk("E11", "high", http_check("page") = 200),
      Chk("E18", "critical", TRUE),
      Chk("E22", "critical", status = 200),
      E_body("E28", "high", body_good),
      E_body("E29", "medium", body_good),
      Guard(Chk("E05", "critical", http_get("page") /\ body_good)),
      Guard(E_page("E06", "critical", body_good)),
      Guard(E_page("E07", "high", body_good)),
      Guard(E_page("E08", "high", body_good)),
      Guard(E_page("E09", "medium", body_good)),
      Guard(Chk("E12", "medium", http_check("page") = 200)),
      Guard(E_body("E14", "high", body_good)),
      Guard(E_body("E15", "medium", body_good)),
      Guard(E_body("E16", "high", body_good)),
      Guard(E_body("E17", "medium", body_good)),
      Guard(E_body("E19", "high", body_good)),
      Guard(Chk("E20", "medium", ~env.slow)),
      Guard(E_body("E21", "high", body_good)),
      Guard(E_page("E23", "high", body_good)),
      Guard(Chk("E24", "high", ok_pages(10) >= 7)),
      Guard(E_page("E25", "medium", body_good)),
      Guard(Chk("E26", "low", http_check("page") = 200)),
      Guard(E_body("E27", "medium", body_good))>>

\* ------------------------------------------------------------------------
\* Section F: Supabase & Backend
\* ------------------------------------------------------------------------
\* a read of a user table with use_service_key=False
anon_query ==
    CASE env.anon = "denied" -> [data |-> 0, count |-> NoCount, status |-> 401]
      [] env.anon = "zero" -> [data |-> 0, count |-> 0, status |-> 200]
      [] env.anon = "zero_nocount" -> [data |-> 0, count |-> NoCount, status |-> 200]
      [] env.anon = "leak" -> [data |-> 1, count |-> 3, status |-> 200]
      [] env.anon = "leak_nocount" -> [data |-> 1, count |-> NoCount, status |-> 206]
      [] env.anon = "down" -> [data |-> 0, count |-> NoCount, status |-> 0]

\* r_anon.get("count", 0) == 0 or not supabase_ok(r_anon)
anon_blocked(r) == r.count = 0 \/ ~supabase_ok(r)

F02_stmt(r_anon) ==
    ChkD("F02", "critical", anon_blocked(r_anon),
         IF ~anon_blocked(r_anon) THEN Text ELSE None)

F03_stmt(r_anon_wl, r_anon_int) ==
    Chk("F03", "critical", anon_blocked(r_anon_wl) /\ anon_blocked(r_anon_int))

\* `if data: <parse, .get(), check> else: prereq_fail` on a mood_mappings row
F_mood(check_id) ==
    LET r == supabase_query(1, 1)
    IN  IF r.data > 0
        THEN (IF malformed THEN Raise ELSE Chk(check_id, "high", db(TRUE, FALSE)))
        ELSE Pre(check_id, "high")

F_table(check_id, severity) == Chk(check_id, severity, supabase_ok(supabase_query(1, 1)))

SectionF ==
    LET r12 == supabase_query(1, 1)
        r_anon_mov == supabase_query(db(20000, 15000), 1)
        total == CountOr0(supabase_query(db(20000, 900), 1))
    IN
    <<Chk("F01", "critical", supabase_ok(supabase_query(db(20000, 15000), 1))),
      F02_stmt(anon_query),
      Chk("F05", "critical", supabase_query(5, db(5, 4)).data = 5),
      Chk("F09", "critical", supabase_query(8, db(8, 6)).data >= 8),
      F_table("F10", "high"), F_table("F11", "high"),
      Chk("F12", "high", supabase_ok(r12)),
      Chk("F15", "high", ~env.slow),
      Chk("F19", "critical", supabase_ok(r12)),
      Chk("F24", "critical", total > 1000),
      Guard(F03_stmt(anon_query, anon_query))>>
    \o (IF supabase_ok(r_anon_mov) /\ r_anon_mov.count = NoCount THEN <<Raise>>
        ELSE <<Guard(Chk("F04", "high", supabase_ok(r_anon_mov) /\ r_anon_mov.count > 0))>>)
    \o <<Guard(F_mood("F06")), Guard(F_mood("F07")), Guard(F_mood("F08")),
         Guard(F_table("F13", "medium")), Guard(F_table("F14", "medium")),
         Guard(Chk("F18", "high", total < 50000 /\ total > 1000))>>
    \o (IF repo_set
        THEN <<Guard(Chk("F20", "critical", search_swift_for("violation") = 0))>>
        ELSE <<Guard(Pre("F20", "critical"))>>)
    \o (IF repo_set
        THEN (IF read_swift_file THEN <<Guard(Chk("F21", "high", contains))>>
              ELSE <<Guard(Pre("F21", "high"))>>)
        ELSE <<Guard(Pre("F21", "high"))>>)
    \o (IF env.WEB_REPO_PATH # ""
        THEN (IF env.WEB_REPO_PATH # "no_functions"
              THEN <<Guard(Chk("F25", "high", env.WEB_REPO_PATH # "risky"))>>
              ELSE <<Guard(Pre("F25", "high"))>>)
        ELSE <<Guard(Pre("F25", "high"))>>)

\* ------------------------------------------------------------------------
\* Section G: iOS Build & Tests
\* ------------------------------------------------------------------------
\* isfile(project.yml), unguarded open, then a check on the content
G_yml(check_id, severity) ==
    IF isfile THEN (IF readable THEN Guard(Chk(check_id, severity, contains)) ELSE Raise)
    ELSE Guard(Pre(check_id, severity))

SectionG ==
    IF ~repo_set \/ ~repo_isdir THEN RepoMissing("G", 25)
    ELSE
    <<CASE env.host = "mac" -> ChkD("G01", "critical", TRUE, None)
        [] env.host = "mac_red" -> ChkD("G01", "critical", FALSE, Text)
        [] OTHER -> Pre("G01", "critical"),
      CASE env.host = "mac" -> Chk("G02", "critical", TRUE)
        [] env.host = "mac_red" -> Chk("G02", "critical", FALSE)
        [] OTHER -> Pre("G02", "critical"),
      CASE env.host = "mac" -> Chk("G03", "critical", TRUE)
        [] env.host = "mac_red" -> ChkD("G03", "critical", FALSE, Text)
        [] OTHER -> Add("G03", "critical", "warn", Text, Text, Text),
      Guard(Chk("G05", "medium", search_swift_for("violation") <= 5)),
      G_yml("G06", "high"), G_yml("G07", "high"), G_yml("G08", "high"),
      G_yml("G09", "medium"),
      IF find_file
      THEN (IF readable THEN Guard(Chk("G10", "high", contains)) ELSE Raise)
      ELSE Guard(Pre("G10", "high")),
      Guard(Chk("G11", "high", find_file)),
      Guard(Chk("G12", "medium", search_swift_for("violation") < 50)),
      Guard(Chk("G13", "medium", search_swift_for("violation") < 20)),
      Guard(Chk("G14", "high", isfile)),
      Guard(Chk("G19", "medium", search_swift_for("feature") >= 5)),
      Guard(Chk("G20", "medium", search_swift_for("feature") > 0)),
      Guard(Chk("G21", "low", search_swift_for("violation") < 30)),
      Guard(Chk("G22", "medium", isfile)),
      IF find_file
      THEN (IF readable THEN Guard(Chk("G23", "high", TRUE)) ELSE Raise)
      ELSE Guard(Pre("G23", "high")),
      Guard(Chk("G25", "high", search_swift_for("violation") = 0))>>

\* ------------------------------------------------------------------------
\* Section H: Marketing Infrastructure
\* ------------------------------------------------------------------------
H_social(check_id, severity) ==
    Guard(Chk(check_id, severity, http_check("page") \in {200, 301, 302}))

SectionH ==
    <<Chk("H09", "critical", http_check("page") = 200),
      Chk("H19", "critical", http_check("home") = 200),
      H_social("H01", "medium"), H_social("H02", "medium"),
      H_social("H03", "low"), H_social("H04", "medium"),
      IF http_get("page") THEN Guard(Chk("H07", "medium", body_good))
      ELSE Guard(Pre("H07", "medium")),
      Guard(Chk("H10", "high", http_check("page") = 200)),
      IF repo_set
      THEN Guard(Chk("H12", "high", find_file /\ search_swift_for("feature") > 0))
      ELSE Guard(Pre("H12", "high")),
      IF repo_set THEN Guard(Chk("H13", "high", search_swift_for("feature") >= 3))
      ELSE Guard(Pre("H13", "high")),
      IF http_get("home") THEN Guard(Chk("H14", "high", body_good))
      ELSE Guard(Pre("H14", "high")),
      IF repo_set THEN Guard(Chk("H16", "medium", search_swift_for("feature") > 0))
      ELSE Guard(Pre("H16", "medium")),
      IF repo_set /\ isfile THEN Guard(Chk("H17", "medium", TRUE))
      ELSE Guard(Pre("H17", "medium")),
      IF env.web # "down" THEN Guard(Chk("H20", "high", TRUE))
      ELSE Guard(Chk("H20", "high", http_check("home") = 200))>>

\* ------------------------------------------------------------------------
\* Section I: Retention & Addiction Loop
\* ------------------------------------------------------------------------
\* `if IOS_REPO_PATH: find_file; open; check ... else prereq_fail` (I10, I15)
I_engine(check_id, severity) ==
    IF repo_set
    THEN (IF find_file
          THEN (IF readable THEN Chk(check_id, severity, contains) ELSE Raise)
          ELSE Pre(check_id, severity))
    ELSE Pre(check_id, severity)

I_cloud(check_id) == Chk(check_id, "critical", supabase_query(1, 1).status \in {200, 206})

SectionI ==
    LET bulk == supabase_query(db(10, 0), db(10, 0))
        r_int == supabase_query(1, 1)
        shown == supabase_query(200, 200)
        moods == supabase_query(5, db(5, 1))
        scores == supabase_query(100, 50)
        r09 == supabase_query(1, 1)
        r13 == supabase_query(100, 100)
        r14 == supabase_query(1, db(1, 0))
        r19 == supabase_query(500, 500)
        ov_count == CountOr0(supabase_query(db(19500, 9000), 1))
        ov_total == CountOr0(supabase_query(db(20000, 15000), 1))
    IN
    <<IF bulk.data > 0 THEN Chk("I01", "critical", bulk.data > 0)
      ELSE IF r_int.data > 0 THEN Chk("I01", "critical", FALSE)
      ELSE Infra("I01", "critical"),
      IF bulk.data > 0 THEN Chk("I02", "critical", TRUE) ELSE Infra("I02", "critical"),
      IF bulk.data > 0
      THEN (IF malformed THEN Raise ELSE Chk("I03", "critical", TRUE))
      ELSE Infra("I03", "critical"),
      IF shown.data > 0 THEN Chk("I04", "critical", db(TRUE, FALSE))
      ELSE Infra("I04", "critical"),
      IF bulk.data > 0
      THEN (IF malformed THEN Raise ELSE Chk("I05", "critical", TRUE))
      ELSE Infra("I05", "critical"),
      IF moods.data >= 2 THEN Chk("I06", "critical", ~malformed)
      ELSE Pre("I06", "critical"),
      IF scores.data > 0 THEN Chk("I07", "high", db(TRUE, FALSE))
      ELSE Pre("I07", "high"),
      Chk("I08", "high", supabase_query(100, 100).data > 0 /\ db(TRUE, FALSE) /\ ~malformed),
      IF r09.data > 0
      THEN (IF malformed THEN Raise ELSE Chk("I09", "high", db(TRUE, FALSE)))
      ELSE Pre("I09", "high"),
      I_engine("I10", "medium"),
      IF repo_set THEN Chk("I11", "high", find_file) ELSE Pre("I11", "high"),
      Chk("I12", "high", supabase_query(1, 1).status \in {200, 206}),
      IF r13.data > 0 /\ db(TRUE, FALSE) THEN Chk("I13", "high", TRUE)
      ELSE Infra("I13", "high"),
      IF r14.data > 0 THEN Chk("I14", "medium", TRUE) ELSE Pre("I14", "medium"),
      I_engine("I15", "critical"),
      Chk("I16", "critical", CountOrLen(supabase_query(db(800, 40), 1)) >= 100),
      Chk("I17", "high", CountOrLen(supabase_query(db(4000, 300), 1)) >= 500),
      IF repo_set THEN Chk("I18", "high", repo_isdir /\ contains) ELSE Pre("I18", "high"),
      IF r19.data > 0
      THEN ChkD("I19", "critical", TRUE, db(None, Text))
      ELSE Infra("I19", "critical"),
      IF r19.data > 0 THEN ChkD("I20", "critical", TRUE, Text)
      ELSE Infra("I20", "critical"),
      I_cloud("I21"), I_cloud("I22"), I_cloud("I23"),
      Chk("I24", "medium", supabase_query(5, 5).data > 0),
      Chk("I25", "high", PctAtLeast(ov_count, ov_total, 90))>>

\* ------------------------------------------------------------------------
\* publish_results
\* ------------------------------------------------------------------------
CountStatus(rs, status) == Cardinality({i \in 1..Len(rs) : rs[i].status = status})

CriticalFailures(rs) ==
    Cardinality({i \in 1..Len(rs) : rs[i].status = "fail" /\ rs[i].severity = "critical"})

\* round(n / d, 0) with ties to even, for integers n >= 0, d > 0
RoundHalfEven(n, d) ==
    LET q == n \div d
        r == n % d
    IN  IF 2 * r < d THEN q
        ELSE IF 2 * r > d THEN q + 1
        ELSE IF q % 2 = 0 THEN q ELSE q + 1

\* variant of ScorePct: the score is truncated instead of rounded
ScorePct_Truncated(passed, failed) ==
    IF passed + failed > 0 THEN (passed * 10000) \div (passed + failed) ELSE 0

\* round(score, 2) in hundredths of a percent:
\* score = passed / (passed + failed) * 100 if passed + failed > 0 else 0
ScorePct(passed, failed) ==
    IF passed + failed > 0 THEN RoundHalfEven(passed * 10000, passed + failed) ELSE 0

RunData(rs) ==
    [total_checks |-> Len(rs),
     passed |-> CountStatus(rs, "pass"),
     failed |-> CountStatus(rs, "fail"),
     warnings |-> CountStatus(rs, "warn"),
     skipped |-> CountStatus(rs, "skip"),
     score_pct |-> ScorePct(CountStatus(rs, "pass"), CountStatus(rs, "fail")),
     critical_failures |-> CriticalFailures(rs)]

\* the dictionary publish_results returns
Summary(rs) ==
    [total |-> Len(rs),
     passed |-> CountStatus(rs, "pass"),
     failed |-> CountStatus(rs, "fail"),
     skipped |-> CountStatus(rs, "skip"),
     critical_failures |-> CriticalFailures(rs),
     score_pct |-> ScorePct(CountStatus(rs, "pass"), CountStatus(rs, "fail"))]

\* item["run_id"] = run_id
SetRunId(item, run_id) ==
    [f \in DOMAIN item \cup {"run_id"} |-> IF f = "run_id" THEN run_id ELSE item[f]]

Tagged(rs, run_id) == [i \in 1..Len(rs) |-> SetRunId(rs[i], run_id)]

Min(a, b) == IF a < b THEN a ELSE b

\* variant of Batches: only the full batches are taken
Batches_FullOnly(rs) ==
    [k \in 1..(Len(rs) \div BatchSize) |->
        SubSeq(rs, (k - 1) * BatchSize + 1, Min(k * BatchSize, Len(rs)))]

\* for i in range(0, len(results), 50): batch = results[i:i+50]
Batches(rs) ==
    [k \in 1..((Len(rs) + BatchSize - 1) \div BatchSize) |->
        SubSeq(rs, (k - 1) * BatchSize + 1, Min(k * BatchSize, Len(rs)))]

\* r.get("data") is truthy for the answer to POST audit_runs
PostHasData == env.post \in {"id", "noid", "notlist"}

\* ------------------------------------------------------------------------
\* main
\* ------------------------------------------------------------------------
SectionKeys ==
    <<"data_integrity", "engine_invariants", "user_experience", "compliance",
      "website", "backend", "ios_build", "marketing", "retention", "security">>

\* section_map: key -> (letter, expected_total)
section_map ==
    [data_integrity |-> [letter |-> "A", expected_total |-> 30],
     engine_invariants |-> [letter |-> "B", expected_total |-> 30],
     user_experience |-> [letter |-> "C", expected_total |-> 35],
     compliance |-> [letter |-> "D", expected_total |-> 30],
     website |-> [letter |-> "E", expected_total |-> 30],
     backend |-> [letter |-> "F", expected_total |-> 25],
     ios_build |-> [letter |-> "G", expected_total |-> 25],
     marketing |-> [letter |-> "H", expected_total |-> 20],
     retention |-> [letter |-> "I", expected_total |-> 25],
     security |-> [letter |-> "J", expected_total |-> 10]]

SkipLimit == 30

\* variant of SkipRow: a section at the limit itself is already FAIL
SkipRow_Strict(rs, section_key) ==
    LET sec_results == {i \in 1..Len(rs) : rs[i].section = section_key}
        sec_total == Cardinality(sec_results)
        sec_skips == Cardinality({i \in sec_results : rs[i].status = "skip"})
    IN  [total |-> sec_total, skips |-> sec_skips,
         status |-> IF sec_total > 0 /\ sec_skips * 100 >= SkipLimit * sec_total
                    THEN "FAIL" ELSE "OK"]

\* one row of the skip-rate table
SkipRow(rs, section_key) ==
    LET sec_results == {i \in 1..Len(rs) : rs[i].section = section_key}
        sec_total == Cardinality(sec_results)
        sec_skips == Cardinality({i \in sec_results : rs[i].status = "skip"})
    IN  [total |-> sec_total, skips |-> sec_skips,
         status |-> IF sec_total > 0 /\ sec_skips * 100 > SkipLimit * sec_total
                    THEN "FAIL" ELSE "OK"]

Sources ==
    {[IOS_REPO_PATH |-> "", tree |-> "empty", host |-> "ci"],
     [IOS_REPO_PATH |-> "file", tree |-> "empty", host |-> "ci"]}
    \cup [IOS_REPO_PATH : {"dir"},
          tree : {"empty", "unreadable", "bare", "clean", "dirty"},
          host : {"ci", "mac", "mac_red", "plain"}]

Remotes ==
    [remote : {"good"},
     approved : {"current", "other", "PENDING_FIRST_RUN", "null", "norow"},
     anon : {"denied"}]
    \cup [remote : {"good"}, approved : {"current"},
          anon : {"zero", "zero_nocount", "leak", "leak_nocount", "down"}]
    \cup [remote : {"bad", "empty", "malformed", "no_count", "denied", "down",
                     "no_scheme"},
          approved : {"current"}, anon : {"denied"}]

Webs ==
    [web : {"up"}, slow : {FALSE},
     WEB_REPO_PATH : {"", "no_functions", "clean", "risky"}]
    \cup [web : {"up"}, slow : {TRUE}, WEB_REPO_PATH : {"clean"}]
    \cup [web : {"stale", "down"}, slow : {FALSE}, WEB_REPO_PATH : {"clean"}]

Posts ==
    [post : {"id", "empty", "error", "noid", "notlist"}, tmp_writable : {TRUE}]
    \cup [post : {"empty"}, tmp_writable : {FALSE}]

MakeEnv(config, s, r, w, p) ==
    [config |-> config, IOS_REPO_PATH |-> s.IOS_REPO_PATH, tree |-> s.tree,
     host |-> s.host, remote |-> r.remote, approved |-> r.approved,
     anon |-> r.anon, web |-> w.web, slow |-> w.slow,
     WEB_REPO_PATH |-> w.WEB_REPO_PATH, post |-> p.post,
     tmp_writable |-> p.tmp_writable,
     total |-> IF r.remote = "bad" THEN 15000 ELSE 20000,
     nulls |-> IF r.remote = "bad" THEN 2500 ELSE 0]

\* the inputs under which every check passes
BaseSource == [IOS_REPO_PATH |-> "dir", tree |-> "clean", host |-> "mac"]
BaseRemote == [remote |-> "good", approved |-> "current", anon |-> "denied"]
BaseWeb == [web |-> "up", slow |-> FALSE, WEB_REPO_PATH |-> "clean"]
BasePost == [post |-> "id", tmp_writable |-> TRUE]

\* the axes on which the inputs (s, r, w, p) differ from the base inputs
Deviations(s, r, w, p) ==
    {a \in {"source", "remote", "web", "post"} :
        \/ a = "source" /\ s # BaseSource
        \/ a = "remote" /\ r # BaseRemote
        \/ a = "web" /\ w # BaseWeb
        \/ a = "post" /\ p # BasePost}

\* every pair of axes takes every combination of its values
Envs ==
    {MakeEnv("ok", q[1], q[2], q[3], q[4]) :
        q \in {x \in Sources \X Remotes \X Webs \X Posts :
                 \E a, b \in {"source", "remote", "web", "post"} :
                    Deviations(x[1], x[2], x[3], x[4]) \subseteq {a, b}}}
    \cup {MakeEnv("missing", BaseSource, BaseRemote, BaseWeb, p) : p \in Posts}

Init ==
    /\ env \in Envs
    /\ pc = "main"
    /\ run_no = 1
    /\ results = <<>>
    /\ exit_code = Unset
    /\ run_data = Unset
    /\ summary = Unset
    /\ prev_summary = Unset
    /\ protected_file_hashes = [f \in ProtectedFiles |-> env.approved]
    /\ audit_runs_posts = 0
    /\ audit_results_posts = <<>>
    /\ fallback_file = Unset
    /\ compliance = Unset
    /\ call = Unset

\* variant of ConfigCheck: the configuration is not looked at
ConfigCheck_NoExit ==
    /\ pc = "main"
    /\ pc' = "run_section_a" /\ exit_code' = exit_code
    /\ UNCHANGED <<env, call, run_no, results, run_data, summary, prev_summary,
                   protected_file_hashes, audit_runs_posts, audit_results_posts,
                   fallback_file, compliance>>

\* main(): the configuration check
ConfigCheck ==
    /\ pc = "main"
    /\ IF env.config = "missing"
       THEN pc' = "done" /\ exit_code' = Some(1)
       ELSE pc' = "run_section_a" /\ exit_code' = exit_code
    /\ UNCHANGED <<env, call, run_no, results, run_data, summary, prev_summary,
                   protected_file_hashes, audit_runs_posts, audit_results_posts,
                   fallback_file, compliance>>

\* variant of RunSection: the name of the function is used as the section key
RunSection_FunctionName(name, section, stmts, next) ==
    /\ pc = name
    /\ LET out == Exec(results, name, stmts)
       IN  /\ results' = out.results
           /\ IF out.raised
              THEN pc' = "crashed" /\ exit_code' = Some(1)
              ELSE pc' = next /\ exit_code' = exit_code
    /\ UNCHANGED <<env, call, run_no, run_data, summary, prev_summary,
                   audit_runs_posts, audit_results_posts, fallback_file, compliance>>

\* a section: its statements run in order; an error that escapes ends the
\* process with status 1 (uncaught exception)
RunSection(name, section, stmts, next) ==
    /\ pc = name
    /\ LET out == Exec(results, section, stmts)
       IN  /\ results' = out.results
           /\ IF out.raised
              THEN pc' = "crashed" /\ exit_code' = Some(1)
              ELSE pc' = next /\ exit_code' = exit_code
    /\ UNCHANGED <<env, call, run_no, run_data, summary, prev_summary,
                   audit_runs_posts, audit_results_posts, fallback_file, compliance>>

\* the baseline branch of a hash check was executed
BaselineRecorded(ss, check_id) ==
    \E i \in 1..Len(ss) :
        /\ ss[i].check_id = check_id
        /\ ss[i].kind = "add_result"
        /\ \A j \in 1..i : ss[j].kind # "raise"

HashCheckOf ==
    [f \in ProtectedFiles |->
        CASE f = "GWRecommendationEngine.swift" -> "D07"
          [] f = "Movie.swift" -> "D08"
          [] f = "GWSpec.swift" -> "D09"
          [] f = "RootFlowView.swift" -> "D10"
          [] f = "SupabaseConfig.swift" -> "D18"]

RunSectionA ==
    /\ RunSection("run_section_a", "data_integrity", SectionA, "run_section_b")
    /\ UNCHANGED protected_file_hashes
RunSectionB ==
    /\ RunSection("run_section_b", "engine_invariants", SectionB, "run_section_c")
    /\ UNCHANGED protected_file_hashes
RunSectionC ==
    /\ RunSection("run_section_c", "user_experience", SectionC, "run_section_d")
    /\ UNCHANGED protected_file_hashes
RunSectionD ==
    /\ RunSection("run_section_d", "compliance", SectionD(protected_file_hashes),
                  "run_section_e")
    /\ protected_file_hashes' =
         [f \in ProtectedFiles |->
            IF BaselineRecorded(SectionD(protected_file_hashes), HashCheckOf[f])
            THEN PatchBaseline(protected_file_hashes[f])
            ELSE protected_file_hashes[f]]
RunSectionE ==
    /\ RunSection("run_section_e", "website", SectionE, "run_section_f")
    /\ UNCHANGED protected_file_hashes
RunSectionF ==
    /\ RunSection("run_section_f", "backend", SectionF, "run_section_g")
    /\ UNCHANGED protected_file_hashes
RunSectionG ==
    /\ RunSection("run_section_g", "ios_build", SectionG, "run_section_h")
    /\ UNCHANGED protected_file_hashes
RunSectionH ==
    /\ RunSection("run_section_h", "marketing", SectionH, "run_section_i")
    /\ UNCHANGED protected_file_hashes
RunSectionI ==
    /\ RunSection("run_section_i", "retention", SectionI, "run_section_j")
    /\ UNCHANGED protected_file_hashes
RunSectionJ ==
    /\ RunSection("run_section_j", "security", SectionJ, "publish_results")
    /\ UNCHANGED protected_file_hashes

\* publish_results()
PublishResults ==
    /\ pc = "publish_results"
    /\ run_data' = Some(RunData(results))
    /\ audit_runs_posts' = audit_runs_posts + 1
    /\ IF PostHasData
       THEN IF env.post = "id"
            THEN LET run_id == audit_runs_posts + 1
                 IN  /\ results' = Tagged(results, run_id)
                     /\ audit_results_posts' =
                            audit_results_posts \o Batches(Tagged(results, run_id))
                     /\ summary' = Some(Summary(results))
                     /\ pc' = "table" /\ exit_code' = exit_code
                     /\ UNCHANGED fallback_file
            ELSE \* r["data"][0]["id"] raises KeyError
                 /\ pc' = "crashed" /\ exit_code' = Some(1)
                 /\ UNCHANGED <<results, audit_results_posts, summary, fallback_file>>
       ELSE IF env.tmp_writable
            THEN /\ fallback_file' = Some([run |-> RunData(results), results |-> results])
                 /\ summary' = Some(Summary(results))
                 /\ pc' = "table" /\ exit_code' = exit_code
                 /\ UNCHANGED <<results, audit_results_posts>>
            ELSE \* open(..., "w") raises
                 /\ pc' = "crashed" /\ exit_code' = Some(1)
                 /\ UNCHANGED <<results, audit_results_posts, summary, fallback_file>>
    /\ UNCHANGED <<env, call, run_no, prev_summary, protected_file_hashes, compliance>>

\* main(): the per-section skip-rate table
SkipRateTable ==
    /\ pc = "table"
    /\ compliance' = [i \in 1..Len(SectionKeys) |-> SkipRow(results, SectionKeys[i])]
    /\ pc' = "exit"
    /\ UNCHANGED <<env, call, run_no, results, exit_code, run_data, summary, prev_summary,
                   protected_file_hashes, audit_runs_posts, audit_results_posts,
                   fallback_file>>

\* variant of ExitDecision: any fail makes the exit code 1
ExitDecision_AnyFail ==
    /\ pc = "exit"
    /\ exit_code' = IF summary[1].failed > 0 THEN Some(1) ELSE Some(0)
    /\ pc' = "done"
    /\ UNCHANGED <<env, call, run_no, results, run_data, summary, prev_summary,
                   protected_file_hashes, audit_runs_posts, audit_results_posts,
                   fallback_file, compliance>>

\* main(): if summary["critical_failures"] > 0: sys.exit(1)
ExitDecision ==
    /\ pc = "exit"
    /\ exit_code' = IF summary[1].critical_failures > 0 THEN Some(1) ELSE Some(0)
    /\ pc' = "done"
    /\ UNCHANGED <<env, call, run_no, results, run_data, summary, prev_summary,
                   protected_file_hashes, audit_runs_posts, audit_results_posts,
                   fallback_file, compliance>>

\* variant of Rerun: the collection of the previous invocation is kept
Rerun_KeepResults ==
    /\ pc \in {"done", "crashed"}
    /\ run_no < MaxRuns
    /\ run_no' = run_no + 1
    /\ prev_summary' = summary
    /\ pc' = "main"
    /\ results' = results
    /\ exit_code' = Unset
    /\ run_data' = Unset
    /\ summary' = Unset
    /\ audit_results_posts' = <<>>
    /\ compliance' = Unset
    /\ UNCHANGED <<env, call, protected_file_hashes, audit_runs_posts, fallback_file>>

\* the next scheduled invocation: a new process, the same inputs, the remote
\* tables and /tmp as the previous invocation left them
Rerun ==
    /\ pc \in {"done", "crashed"}
    /\ run_no < MaxRuns
    /\ run_no' = run_no + 1
    /\ prev_summary' = summary
    /\ pc' = "main"
    /\ results' = <<>>
    /\ exit_code' = Unset
    /\ run_data' = Unset
    /\ summary' = Unset
    /\ audit_results_posts' = <<>>
    /\ compliance' = Unset
    /\ UNCHANGED <<env, call, protected_file_hashes, audit_runs_posts, fallback_file>>

Next ==
    \/ ConfigCheck
    \/ RunSectionA \/ RunSectionB \/ RunSectionC \/ RunSectionD \/ RunSectionE
    \/ RunSectionF \/ RunSectionG \/ RunSectionH \/ RunSectionI \/ RunSectionJ
    \/ PublishResults
    \/ SkipRateTable
    \/ ExitDecision
    \/ Rerun

Spec == Init /\ [][Next]_vars

\* ------------------------------------------------------------------------
\* Properties
\* ------------------------------------------------------------------------
Finished == pc \in {"done", "crashed"}
\* an error escaped a section (publish_results had not started)
EscapedSection == pc = "crashed" /\ run_data = Unset
\* an error escaped publish_results (run_data is built before the first write)
EscapedPublish == pc = "crashed" /\ run_data # Unset
Published == pc \in {"table", "exit", "done"} /\ env.config = "ok"

IdsOf(rs, section_key) ==
    {rs[i].check_id : i \in {j \in 1..Len(rs) : rs[j].section = section_key}}
DeclaredIds(section_key) ==
    {CheckId(section_map[section_key].letter, n) :
        n \in 1..section_map[section_key].expected_total}
StatusOf(rs, check_id) ==
    rs[CHOOSE i \in 1..Len(rs) : rs[i].check_id = check_id].status

\* C1 (as stated): when main has ended, the exit code is non-zero if and
\* only if the results hold a fail of severity critical; nothing else makes
\* it non-zero.
C1_ExitIffCriticalOnly ==
    Finished => ((exit_code # Some(0)) <=> (CriticalFailures(results) > 0))

\* C1 (amended): when main has ended, the exit code is 0 or 1, and it is 1 if
\* and only if the configuration was missing, or an error escaped a section
\* or publish_results, or the results hold a fail of severity critical;
\* non-critical fails, warns, skips and the skip-rate table never change it.
C1_ExitCode ==
    Finished =>
        /\ exit_code \in {Some(0), Some(1)}
        /\ (exit_code = Some(1)) <=>
              \/ env.config = "missing"
              \/ pc = "crashed"
              \/ CriticalFailures(results) > 0

\* a run that ends with exit code 0 although it recorded non-critical fails
C1_Witness ==
    /\ pc = "done" /\ exit_code = Some(0)
    /\ CountStatus(results, "fail") > 0
    /\ compliance # Unset

\* C2: once the sections have run, the check_ids recorded under each section
\* are exactly the section's declared range X01..XNN.
C2_DeclaredIdRanges ==
    Published =>
        \A i \in 1..Len(SectionKeys) :
            IdsOf(results, SectionKeys[i]) = DeclaredIds(SectionKeys[i])

\* C3: when the summary write returned no created identifier, no detail
\* batch was posted and the fallback artifact holds the run summary and all
\* results in order.
C3_FallbackOnNoIdentifier ==
    (run_data # Unset /\ env.post # "id") =>
        /\ audit_results_posts = <<>>
        /\ fallback_file = Some([run |-> run_data[1], results |-> results])

\* C4: every result's status is one of pass, fail, warn, skip, and the
\* published summary satisfies
\* total_checks = passed + failed + warnings + skipped.
C4_StatusesAndTotals ==
    /\ \A i \in 1..Len(results) : results[i].status \in Statuses
    /\ run_data # Unset =>
          run_data[1].total_checks =
              run_data[1].passed + run_data[1].failed
              + run_data[1].warnings + run_data[1].skipped

\* a published run whose results mix pass, fail and warn
C4_Witness ==
    /\ run_data # Unset
    /\ run_data[1].passed > 0 /\ run_data[1].failed > 0 /\ run_data[1].warnings > 0
    /\ \E i \in 1..Len(results) :
          results[i].status = "fail" /\ results[i].detail = Text
          /\ results[i].expected_value = None

\* C7: F02 (and F03) record pass if and only if every anonymous read
\* returned a status other than 200/206 or zero rows.
C7_AnonProbe ==
    /\ Recorded(results, "F02") =>
          ((StatusOf(results, "F02") = "pass")
              <=> (~supabase_ok(anon_query) \/ anon_query.data = 0))
    /\ Recorded(results, "F03") =>
          ((StatusOf(results, "F03") = "pass")
              <=> (~supabase_ok(anon_query) \/ anon_query.data = 0))

\* C8: the summary of a run has the same passed and failed counts as the
\* summary of the run before it.
C8_SameCounts ==
    (summary # Unset /\ prev_summary # Unset) =>
        /\ summary[1].passed = prev_summary[1].passed
        /\ summary[1].failed = prev_summary[1].failed

\* a second run published after the first run stored the hash baselines
C8_Witness ==
    /\ run_no = 2 /\ summary # Unset /\ prev_summary # Unset
    /\ env.approved = "PENDING_FIRST_RUN"
    /\ \A f \in ProtectedFiles : protected_file_hashes[f] = "current"
    /\ audit_runs_posts = 2

\* C9: no error escapes a section.
C9_NoSectionEscape == ~EscapedSection

\* C10: publish_results never raises.
C10_PublishNeverRaises == ~EscapedPublish

\* ------------------------------------------------------------------------
\* publish_results and the exit decision on an arbitrary result collection
\* ------------------------------------------------------------------------
\* a collection of p pass, f fail, w warn and s skip results; the fails are
\* of severity critical when crit holds
MakeResults(p, f, w, s, crit) ==
    [i \in 1..(p + f + w + s) |->
        [check_id |-> "X" \o ToString(i), section |-> "data_integrity",
         severity |-> IF crit THEN "critical" ELSE "high",
         status |-> IF i <= p THEN "pass"
                    ELSE IF i <= p + f THEN "fail"
                    ELSE IF i <= p + f + w THEN "warn" ELSE "skip",
         expected_value |-> Text, actual_value |-> Text, detail |-> None]]

InitPublish ==
    /\ env \in {MakeEnv("ok", BaseSource, BaseRemote, BaseWeb, p) : p \in Posts}
    /\ pc = "publish_results"
    /\ run_no = 1
    /\ \E p \in 0..MaxCount, f \in 0..MaxCount, w \in 0..MaxWarn, s \in 0..MaxCount,
          crit \in BOOLEAN :
          results = MakeResults(p, f, w, s, crit)
    /\ exit_code = Unset
    /\ run_data = Unset
    /\ summary = Unset
    /\ prev_summary = Unset
    /\ protected_file_hashes = [f \in ProtectedFiles |-> env.approved]
    /\ audit_runs_posts = 0
    /\ audit_results_posts = <<>>
    /\ fallback_file = Unset
    /\ compliance = Unset
    /\ call = Unset

NextPublish == PublishResults \/ SkipRateTable \/ ExitDecision

SpecPublish == InitPublish /\ [][NextPublish]_vars

\* score_pct in hundredths of a percent is the integer nearest to
\* passed / (passed + failed) * 10000
NearestHundredth(score, passed, failed) ==
    LET den == passed + failed
        diff == score * den - passed * 10000
    IN  2 * (IF diff < 0 THEN 0 - diff ELSE diff) <= den

\* C5 (as stated): score_pct equals passed / (passed + failed) * 100.
C5_ScoreExact ==
    run_data # Unset =>
        LET d == run_data[1]
        IN  IF d.passed + d.failed > 0
            THEN d.score_pct * (d.passed + d.failed) = d.passed * 10000
            ELSE d.score_pct = 0

\* C5 (amended): score_pct equals passed / (passed + failed) * 100 rounded
\* to two decimal places, is 0 when passed + failed = 0, depends on no other
\* count, lies in 0..100, and passed=7, failed=3, warnings=2, skipped=8 give
\* score_pct 70 and total_checks 20.
C5_ScoreRounded ==
    run_data # Unset =>
        LET d == run_data[1]
        IN  /\ d.passed = CountStatus(results, "pass")
            /\ d.failed = CountStatus(results, "fail")
            /\ IF d.passed + d.failed > 0
               THEN NearestHundredth(d.score_pct, d.passed, d.failed)
               ELSE d.score_pct = 0
            /\ d.score_pct >= 0 /\ d.score_pct <= 10000
            /\ (d.passed = 7 /\ d.failed = 3 /\ d.warnings = 2 /\ d.skipped = 8)
                  => (d.score_pct = 7000 /\ d.total_checks = 20)
            /\ summary # Unset => summary[1].score_pct = d.score_pct

\* the example of the claim has been published
C5_Witness ==
    /\ run_data # Unset /\ summary # Unset
    /\ run_data[1].passed = 7 /\ run_data[1].failed = 3
    /\ run_data[1].warnings = 2 /\ run_data[1].skipped = 8
    /\ summary[1].score_pct = 7000

\* ------------------------------------------------------------------------
\* Section A on an arbitrary movies table
\* ------------------------------------------------------------------------
\* the table has `total` rows of which `nulls` lack the checked field
CoverageInputs ==
    {<<t, n>> : t \in 0..MaxTotal, n \in 0..MaxTotal} \cup
    {<<20000, n>> : n \in {0, 1000, 1001, 1020, 2000, 2001, 2500, 4000, 4001,
                          4020, 5000}}

InitCoverage ==
    /\ \E q \in {x \in CoverageInputs : x[2] <= x[1]},
          r \in {x \in Remotes : x.remote \in {"good", "malformed", "no_count", "down"}
                                 /\ x.approved = "current" /\ x.anon = "denied"} :
          env = [MakeEnv("ok", BaseSource, r, BaseWeb, BasePost)
                    EXCEPT !.total = q[1], !.nulls = q[2]]
    /\ pc = "run_section_a"
    /\ run_no = 1
    /\ results = <<>>
    /\ exit_code = Unset
    /\ run_data = Unset
    /\ summary = Unset
    /\ prev_summary = Unset
    /\ protected_file_hashes = [f \in ProtectedFiles |-> env.approved]
    /\ audit_runs_posts = 0
    /\ audit_results_posts = <<>>
    /\ fallback_file = Unset
    /\ compliance = Unset
    /\ call = Unset

NextCoverage == RunSectionA

SpecCoverage == InitCoverage /\ [][NextCoverage]_vars

\* the counts the coverage checks read from the replies
SeenTotal == A_total
SeenNulls == A_nulls
\* coverage >= limit, where coverage = (total - nulls) / total * 100 and is
\* taken as 0 when total = 0
CoverageAtLeast(limit) ==
    SeenTotal > 0 /\ (SeenTotal - SeenNulls) * 100 >= limit * SeenTotal
\* the status of a check graded pass from 95 and warn from warn_floor
Graded(check_id, warn_floor) ==
    /\ (StatusOf(results, check_id) = "pass") <=> CoverageAtLeast(95)
    /\ (StatusOf(results, check_id) = "warn")
          <=> (CoverageAtLeast(warn_floor) /\ ~CoverageAtLeast(95))
    /\ (StatusOf(results, check_id) = "fail") <=> ~CoverageAtLeast(warn_floor)

\* C6 (as stated): A02, A08, A11 and A12 all grade coverage >= 95 pass,
\* 80 <= coverage < 95 warn, coverage < 80 fail.
C6_SameBands ==
    \A check_id \in {"A02", "A08", "A11", "A12"} :
        Recorded(results, check_id) => Graded(check_id, 80)

\* C6 (amended): A08, A11 and A12 grade coverage >= 95 pass, 80 <= coverage
\* < 95 warn, coverage < 80 fail; A02 grades coverage >= 95 pass, 90 <=
\* coverage < 95 warn, coverage < 90 fail; coverage is taken as 0 when the
\* total is 0. With total = 20000: nulls = 0 gives pass, nulls = 2500 gives
\* warn for A08, A11, A12 and fail for A02, nulls = 5000 gives fail; 95.0 is
\* pass, 94.9 is warn and 79.9 is fail for all four.
C6_Bands ==
    /\ \A check_id \in {"A08", "A11", "A12"} :
          Recorded(results, check_id) => Graded(check_id, 80)
    /\ Recorded(results, "A02") => Graded("A02", 90)
    /\ (Recorded(results, "A12") /\ SeenTotal = 20000) =>
          \A check_id \in {"A02", "A08", "A11", "A12"} :
             /\ SeenNulls \in {0, 1000} => StatusOf(results, check_id) = "pass"
             /\ SeenNulls = 1020 => StatusOf(results, check_id) = "warn"
             /\ SeenNulls = 2500 =>
                   StatusOf(results, check_id) = IF check_id = "A02" THEN "fail" ELSE "warn"
             /\ SeenNulls \in {4020, 5000} => StatusOf(results, check_id) = "fail"

\* a table of 20000 rows with 2500 nulls has been graded
C6_Witness ==
    /\ Recorded(results, "A12")
    /\ SeenTotal = 20000 /\ SeenNulls = 2500
    /\ StatusOf(results, "A02") = "fail"
    /\ StatusOf(results, "A08") = "warn"

\* ------------------------------------------------------------------------
\* supabase_query on an arbitrary request and answer
\* ------------------------------------------------------------------------
Bodies ==
    {[text |-> "", rows |-> 0], [text |-> "garbage", rows |-> 0]}
    \cup [text : {"json"}, rows : 0..MaxRows]
ContentRanges ==
    {[slash |-> FALSE, total |-> "*", value |-> 0],
     [slash |-> TRUE, total |-> "*", value |-> 0],
     [slash |-> TRUE, total |-> "text", value |-> 0]}
    \cup [slash : {TRUE}, total : {"digits"}, value : 0..MaxRows]
Wires ==
    [built : BOOLEAN, kind : {"response"}, status : {200, 201, 204, 206},
     body : Bodies, content_range : ContentRanges]
    \cup {Failure(b, "http_error", code) : b \in BOOLEAN, code \in {400, 401, 404, 500}}
    \cup {Failure(b, "transport_error", 0) : b \in BOOLEAN}

InitQuery ==
    /\ env = MakeEnv("ok", BaseSource, BaseRemote, BaseWeb, BasePost)
    /\ \E w \in Wires : call = Some([wire |-> w, result |-> Unset])
    /\ pc = "supabase_query"
    /\ run_no = 1
    /\ results = <<>>
    /\ exit_code = Unset
    /\ run_data = Unset
    /\ summary = Unset
    /\ prev_summary = Unset
    /\ protected_file_hashes = [f \in ProtectedFiles |-> env.approved]
    /\ audit_runs_posts = 0
    /\ audit_results_posts = <<>>
    /\ fallback_file = Unset
    /\ compliance = Unset

\* r = supabase_query(...): the caller gets the record, or the exception
SupabaseQuery ==
    /\ pc = "supabase_query"
    /\ LET out == supabase_request(call[1].wire)
       IN  IF out.raised
           THEN pc' = "crashed" /\ exit_code' = Some(1) /\ call' = call
           ELSE /\ pc' = "returned" /\ exit_code' = exit_code
                /\ call' = Some([wire |-> call[1].wire,
                                 result |-> Some([data |-> out.data, count |-> out.count,
                                                  status |-> out.status,
                                                  error |-> out.error])])
    /\ UNCHANGED <<env, run_no, results, run_data, summary, prev_summary,
                   protected_file_hashes, audit_runs_posts, audit_results_posts,
                   fallback_file, compliance>>

NextQuery == SupabaseQuery

SpecQuery == InitQuery /\ [][NextQuery]_vars

\* C11: supabase_query never raises; an HTTP error gives that status with
\* empty data; any other failure (transport error, unparsable body,
\* unparsable count, request that cannot be built) gives status 0 with empty
\* data and an error string; supabase_ok holds exactly for 200 and 206.
C11_QueryTotal ==
    call # Unset =>
        LET w == call[1].wire
        IN  /\ pc # "crashed"
            /\ pc = "returned" =>
                 LET r == call[1].result[1]
                 IN  /\ (w.kind = "http_error")
                            => (r.status = w.status /\ r.data = 0)
                     /\ (\/ ~w.built
                         \/ w.kind = "transport_error"
                         \/ (w.kind = "response" /\ w.body.text = "garbage")
                         \/ (w.kind = "response" /\ w.content_range.slash
                             /\ w.content_range.total = "text"))
                            => (r.status = 0 /\ r.data = 0 /\ r.error)
                     /\ supabase_ok(r) <=> (r.status \in {200, 206})

\* ------------------------------------------------------------------------
\* Checks whose outcome is computed from the reply of a service-key
\* supabase_query (sections A, B, D, F, I).  B06 is left out (it falls back
\* to the source tree), F15 measures latency only, F02-F04 use the
\* anonymous key.
\* ------------------------------------------------------------------------
QueryChecks ==
    {CheckId("A", n) : n \in 1..32}
    \cup {"B21", "B22", "B23", "B24"}
    \cup {"D07", "D08", "D09", "D10", "D18"}
    \cup {"F01", "F05", "F06", "F07", "F08", "F09", "F10", "F11", "F12",
          "F13", "F14", "F18", "F19", "F24"}
    \cup {"I01", "I02", "I03", "I04", "I05", "I06", "I07", "I08", "I09",
          "I12", "I13", "I14", "I16", "I17", "I19", "I20", "I21", "I22",
          "I23", "I24", "I25"}

\* a result written by prereq_fail
IsPrereq(r) ==
    r.status = "fail" /\ r.expected_value = None /\ r.actual_value = None
    /\ r.detail = Text

\* C12: when every remote query fails at the transport level (status 0,
\* empty data, no count), no check that depends on a query records pass;
\* each is recorded as skip or as a prerequisite failure.
C12_NoPassOnTransportFailure ==
    env.remote = "down" =>
        \A i \in 1..Len(results) :
            results[i].check_id \in QueryChecks =>
                /\ results[i].status # "pass"
                /\ (results[i].status = "skip" \/ IsPrereq(results[i]))

\* C13: within one run the collection only grows by appending: no step of
\* the run removes a result or changes a record that is already in the
\* collection (the restart of the process, which resets the collection, is
\* not a step of the run).
C13_AppendOnly ==
    [][pc \notin {"done", "crashed"} =>
          /\ Len(results') >= Len(results)
          /\ \A i \in 1..Len(results) : results'[i] = results[i]]_vars

\* C14: in every reachable state no two results share a check_id, the
\* checks with a fallback in an except branch and the section-B sweep
\* included.
C14_UniqueIds ==
    Cardinality({results[i].check_id : i \in 1..Len(results)}) = Len(results)

\* a finished run on a host without git or xcodebuild, an engine file that
\* is not found and a website that does not answer: the section-B sweep ran
\* and D04, G01 and E23 were recorded by their fallback branches
C14_Witness ==
    /\ pc = "done"
    /\ env.host = "plain" /\ repo_isdir /\ ~find_file /\ env.web = "down"
    /\ \A id \in {"B01", "B29", "D04", "G01", "E23"} :
          \E i \in 1..Len(results) :
              results[i].check_id = id /\ IsPrereq(results[i])
    /\ Recorded(results, "H20")
    /\ \A i, j \in 1..Len(results) :
          results[i].check_id = results[j].check_id => i = j

\* C15: a result recorded for an unmet prerequisite (no expected value, no
\* actual value, the reason as its detail) has status skip, not fail, so it
\* counts neither in score_pct nor in critical_failures.
C15_PrereqIsSkip ==
    \A i \in 1..Len(results) :
        (/\ results[i].expected_value = None
         /\ results[i].actual_value = None
         /\ results[i].detail = Text
         /\ results[i].status # "pass")
            => results[i].status = "skip"

\* ------------------------------------------------------------------------
\* The skip-rate table of main() on arbitrary collections: `total` results
\* of one section, `skips` of them with status skip.
\* ------------------------------------------------------------------------
SectionResults(section_key, total, skips) ==
    [i \in 1..total |->
        [check_id |-> "X" \o ToString(i), section |-> section_key,
         severity |-> "high",
         status |-> IF i <= skips THEN "skip" ELSE "pass",
         expected_value |-> Text, actual_value |-> Text, detail |-> None]]

InitTable ==
    /\ env = MakeEnv("ok", BaseSource, BaseRemote, BaseWeb, BasePost)
    /\ pc = "table"
    /\ run_no = 1
    /\ \E k \in 1..Len(SectionKeys), total \in 0..MaxTotal :
          \E skips \in 0..total :
              results = SectionResults(SectionKeys[k], total, skips)
    /\ exit_code = Unset
    /\ run_data = Some(RunData(results))
    /\ summary = Some(Summary(results))
    /\ prev_summary = Unset
    /\ protected_file_hashes = [f \in ProtectedFiles |-> env.approved]
    /\ audit_runs_posts = 1
    /\ audit_results_posts = <<>>
    /\ fallback_file = Unset
    /\ compliance = Unset
    /\ call = Unset

NextTable == SkipRateTable \/ ExitDecision

SpecTable == InitTable /\ [][NextTable]_vars

\* the results of one section, and the skips among them
SectionCount(section_key) ==
    Cardinality({i \in 1..Len(results) : results[i].section = section_key})
SectionSkips(section_key) ==
    Cardinality({i \in 1..Len(results) :
                    results[i].section = section_key /\ results[i].status = "skip"})

C17_Batches ==
    (env.post = "id" /\ summary # Unset) =>
        LET n == Len(results)
            posts == audit_results_posts
        IN  /\ Len(posts) = (n + 49) \div 50
            /\ \A k \in 1..Len(posts) :
                  /\ Len(posts[k]) >= 1 /\ Len(posts[k]) <= 50
                  /\ Len(posts[k]) = IF k < Len(posts) THEN 50 ELSE n - 50 * (k - 1)
                  /\ \A j \in 1..Len(posts[k]) :
                        /\ posts[k][j] = results[50 * (k - 1) + j]
                        /\ posts[k][j].run_id = audit_runs_posts

\* a finished run that published more than 200 results in several POSTs,
\* the last one shorter than 50
C17_Witness ==
    /\ pc = "done" /\ env.post = "id" /\ summary # Unset
    /\ Len(results) > 200
    /\ Len(audit_results_posts) = 5
    /\ Len(audit_results_posts[5]) < 50
    /\ audit_results_posts[5][1].check_id = results[201].check_id

\* Checks that read the source tree in sections B, F, G, H, I and J.
TreeChecks ==
    {B_source_ids[i] : i \in 1..Len(B_source_ids)}
    \cup {"F20", "F21"}
    \cup {CheckId("G", n) : n \in 1..25}
    \cup {"H12", "H13", "H16", "H17"}
    \cup {"I10", "I11", "I15", "I18"}
    \cup {"J02", "J03", "J04", "J07", "J08", "J10"}

\* C18: when the source tree root is unset, absent or not a directory,
\* every check that reads the tree is recorded as a prerequisite-missing
\* result with its reason, never as pass.
C18_TreeMissingIsPrereq ==
    ~(repo_set /\ repo_isdir) =>
        \A i \in 1..Len(results) :
            results[i].check_id \in TreeChecks =>
                /\ results[i].status # "pass"
                /\ IsPrereq(results[i])

\* C19: in each publish the fallback artifact is written if and only if the
\* summary write returned no data, and exactly one of the two happens: the
\* detail batches are posted, or the fallback artifact is written.
C19_BatchesOrFallback ==
    (run_data # Unset /\ Len(results) > 0) =>
        LET posted == audit_results_posts # <<>>
            written == fallback_file # Unset
        IN  /\ written <=> ~PostHasData
            /\ posted <=> ~written

\* the position of a section in the order of main()
SectionIndex(section_key) ==
    CHOOSE k \in 1..Len(SectionKeys) : SectionKeys[k] = section_key

\* the control points of a run that passed the configuration check
PcOrder ==
    <<"run_section_a", "run_section_b", "run_section_c", "run_section_d",
      "run_section_e", "run_section_f", "run_section_g", "run_section_h",
      "run_section_i", "run_section_j", "publish_results", "table", "exit",
      "done">>

\* the sections that have results in the collection
SectionsSeen == {results[i].section : i \in 1..Len(results)}

\* C20: in every run that passes the configuration check the ten sections
\* execute once each in the order A..J (so the results of an earlier
\* section precede those of a later one), the summary write happens once
\* and only after section J, the table comes after publishing and the exit
\* decision is last: a run that has ended has gone through all of them.
C20_FixedOrder ==
    env.config = "ok" =>
        /\ \A i \in 1..(Len(results) - 1) :
              SectionIndex(results[i].section) <= SectionIndex(results[i + 1].section)
        /\ \A k \in 1..Len(PcOrder) :
              pc = PcOrder[k] =>
                  SectionsSeen = {SectionKeys[m] : m \in 1..Min(k - 1, Len(SectionKeys))}
        /\ run_data # Unset => pc \in {"table", "exit", "done", "crashed"}
        /\ audit_runs_posts <= run_no
        /\ compliance # Unset => (summary # Unset /\ pc \in {"exit", "done"})
        /\ exit_code = Some(0) => (pc = "done" /\ compliance # Unset)
        /\ pc \in {"done", "crashed"} =>
              /\ pc = "done"
              /\ SectionsSeen = {SectionKeys[m] : m \in 1..Len(SectionKeys)}
              /\ audit_runs_posts = run_no
              /\ compliance # Unset

\* ------------------------------------------------------------------------
\* The requests of E05/E06 (movie page) and of the warmup and F01 (movies
\* table), each attempt with an outcome of its own.  `call` holds the
\* outcomes still to come and the log of the requests made: the URL, the
\* check recorded next after the request, and whether the attempt succeeded.
\* ------------------------------------------------------------------------
PageOutcomes == {"fail", "good", "bad"}
QueryOutcomes == {"fail", "ok"}

MoviePage == "WEBSITE_URL/movies/inception-2010"
MoviesQuery == "movies?select=id&limit=1"

Requested(url, check_id, ok) == [url |-> url, check |-> check_id, ok |-> ok]

\* http_get(url): the body, "" when the attempt fails
http_get_attempt(outcome) == outcome # "fail"
\* supabase_query(endpoint) on one attempt
supabase_query_attempt(outcome) ==
    IF outcome = "ok" THEN [data |-> 1, count |-> 20000, status |-> 200]
    ELSE [data |-> 0, count |-> NoCount, status |-> 0]

InitRequests ==
    /\ env = MakeEnv("ok", BaseSource, BaseRemote, BaseWeb, BasePost)
    /\ \E p1 \in PageOutcomes, p2 \in PageOutcomes,
          q1 \in QueryOutcomes, q2 \in QueryOutcomes :
          call = Some([page |-> <<p1, p2>>, query |-> <<q1, q2>>, log |-> <<>>])
    /\ pc = "E05"
    /\ run_no = 1
    /\ results = <<>>
    /\ exit_code = Unset
    /\ run_data = Unset
    /\ summary = Unset
    /\ prev_summary = Unset
    /\ protected_file_hashes = [f \in ProtectedFiles |-> env.approved]
    /\ audit_runs_posts = 0
    /\ audit_results_posts = <<>>
    /\ fallback_file = Unset
    /\ compliance = Unset

Logged(entry) == Some([call[1] EXCEPT !.log = Append(@, entry)])

\* E05: test_body = http_get(movie page); check(..., "inception" in body)
FetchE05 ==
    /\ pc = "E05"
    /\ LET test_body == call[1].page[1]
       IN  /\ results' = check(results, "E05", "website", "critical",
                               http_get_attempt(test_body) /\ test_body = "good",
                               Text, Text, None)
           /\ call' = Logged(Requested(MoviePage, "E05", http_get_attempt(test_body)))
    /\ pc' = "E06"
    /\ UNCHANGED <<env, run_no, exit_code, run_data, summary, prev_summary,
                   protected_file_hashes, audit_runs_posts, audit_results_posts,
                   fallback_file, compliance>>

\* E06: uses test_body when it is not empty, else fetches the page again
CheckE06 ==
    /\ pc = "E06"
    /\ LET test_body == call[1].page[1]
           movie_body == call[1].page[2]
       IN  IF http_get_attempt(test_body)
           THEN /\ results' = check(results, "E06", "website", "critical",
                                    test_body = "good", Text, Text, None)
                /\ call' = call
           ELSE /\ results' =
                      IF http_get_attempt(movie_body)
                      THEN check(results, "E06", "website", "critical",
                                 movie_body = "good", Text, Text, None)
                      ELSE prereq_fail(results, "E06", "website", "critical")
                /\ call' = Logged(Requested(MoviePage, "E06",
                                            http_get_attempt(movie_body)))
    /\ pc' = "warmup"
    /\ UNCHANGED <<env, run_no, exit_code, run_data, summary, prev_summary,
                   protected_file_hashes, audit_runs_posts, audit_results_posts,
                   fallback_file, compliance>>

\* run_section_f: the warmup request, its reply dropped
Warmup ==
    /\ pc = "warmup"
    /\ call' = Logged(Requested(MoviesQuery, "F01",
                                supabase_ok(supabase_query_attempt(call[1].query[1]))))
    /\ pc' = "F01"
    /\ UNCHANGED <<env, run_no, results, exit_code, run_data, summary, prev_summary,
                   protected_file_hashes, audit_runs_posts, audit_results_posts,
                   fallback_file, compliance>>

\* F01: r = supabase_query(same endpoint); check(..., supabase_ok(r))
CheckF01 ==
    /\ pc = "F01"
    /\ LET r == supabase_query_attempt(call[1].query[2])
       IN  /\ results' = check(results, "F01", "backend", "critical",
                               supabase_ok(r), Text, Text, None)
           /\ call' = Logged(Requested(MoviesQuery, "F01", supabase_ok(r)))
    /\ pc' = "returned"
    /\ UNCHANGED <<env, run_no, exit_code, run_data, summary, prev_summary,
                   protected_file_hashes, audit_runs_posts, audit_results_posts,
                   fallback_file, compliance>>

NextRequests == FetchE05 \/ CheckE06 \/ Warmup \/ CheckF01

SpecRequests == InitRequests /\ [][NextRequests]_vars

\* C21: no request is retried: once an attempt has failed, the same URL is
\* not requested again for the same check, and the check of a failed
\* attempt is recorded with a status other than pass.
C21_NoRetry ==
    (call # Unset /\ pc \in {"E05", "E06", "warmup", "F01", "returned"}) =>
        LET log == call[1].log
        IN  /\ \A i, j \in 1..Len(log) :
                  (i < j /\ ~log[i].ok /\ log[i].url = log[j].url)
                      => log[i].check # log[j].check
            /\ \A i \in 1..Len(log) :
                  (~log[i].ok /\ Recorded(results, log[i].check)) =>
                      \A k \in 1..Len(results) :
                          results[k].check_id = log[i].check
                              => results[k].status # "pass"

\* ------------------------------------------------------------------------
\* The sampled structural checks A03, A06 and A07 on an arbitrary sample of
\* emotional_profile values.  A value is a mapping ("mapping" with the eight
\* dimensions in range, "partial" with dimensions missing, "out_of_range"),
\* serialized text ("text_mapping" parses to a full mapping, "text_garbage"
\* does not parse, "text_list" parses to a list) or a list.
\* ------------------------------------------------------------------------
ProfileValues ==
    {"mapping", "partial", "out_of_range", "text_mapping", "text_garbage",
     "text_list", "list"}

IsText(v) == v \in {"text_mapping", "text_garbage", "text_list"}

\* json.loads(v): the parsed value, "error" when it raises
json_loads(v) ==
    CASE v = "text_mapping" -> "mapping"
      [] v = "text_list" -> "list"
      [] OTHER -> "error"

\* A03: if isinstance(ep, str): try: ep = json.loads(ep) except: ep = {}
LoadedOrEmpty(v) ==
    IF IsText(v) THEN (IF json_loads(v) = "error" THEN "empty" ELSE json_loads(v))
    ELSE v

\* ep.keys() / ep.items() / ep.values() exist
HasKeys(v) == v \in {"mapping", "partial", "out_of_range", "empty"}

\* A03 over the sample: raised, or the number of incomplete profiles
A03Sample(sample) ==
    [raised |-> \E i \in 1..Len(sample) : ~HasKeys(LoadedOrEmpty(sample[i])),
     incomplete |-> Cardinality({i \in 1..Len(sample) :
                        LoadedOrEmpty(sample[i]) \in {"partial", "empty"}})]

\* A06/A07: a text value that does not parse is skipped (continue)
A06Sample(sample) ==
    LET kept == {i \in 1..Len(sample) :
                    ~(IsText(sample[i]) /\ json_loads(sample[i]) = "error")}
    IN  [raised |-> \E i \in kept : ~HasKeys(LoadedOrEmpty(sample[i])),
         out_of_range |-> Cardinality({i \in kept : sample[i] = "out_of_range"})]

SamplesOf(n) == [1..n -> ProfileValues]

\* A03 reads the first 50 rows (limit=50), A06 and A07 the first 100
\* (limit=100) of the same table
FirstHalf(sample) == [i \in 1..((Len(sample) + 1) \div 2) |-> sample[i]]

InitSample ==
    /\ env = MakeEnv("ok", BaseSource, BaseRemote, BaseWeb, BasePost)
    /\ \E n \in 0..MaxSample : \E sample \in SamplesOf(n) :
          call = Some([sample |-> sample])
    /\ pc = "A03"
    /\ run_no = 1
    /\ results = <<>>
    /\ exit_code = Unset
    /\ run_data = Unset
    /\ summary = Unset
    /\ prev_summary = Unset
    /\ protected_file_hashes = [f \in ProtectedFiles |-> env.approved]
    /\ audit_runs_posts = 0
    /\ audit_results_posts = <<>>
    /\ fallback_file = Unset
    /\ compliance = Unset

SampleA03 ==
    /\ pc = "A03"
    /\ LET out == A03Sample(FirstHalf(call[1].sample))
       IN  IF out.raised
           THEN pc' = "crashed" /\ exit_code' = Some(1) /\ results' = results
           ELSE /\ results' = check(results, "A03", "data_integrity", "critical",
                                    out.incomplete = 0, Text, Text, None)
                /\ pc' = "A06" /\ exit_code' = exit_code
    /\ UNCHANGED <<env, call, run_no, run_data, summary, prev_summary,
                   protected_file_hashes, audit_runs_posts, audit_results_posts,
                   fallback_file, compliance>>

SampleA06 ==
    /\ pc = "A06"
    /\ LET out == A06Sample(call[1].sample)
       IN  IF out.raised
           THEN pc' = "crashed" /\ exit_code' = Some(1) /\ results' = results
           ELSE /\ results' =
                      check(check(results, "A06", "data_integrity", "critical",
                                  out.out_of_range = 0, Text, Text, None),
                            "A07", "data_integrity", "high", TRUE, Text, Text, None)
                /\ pc' = "returned" /\ exit_code' = exit_code
    /\ UNCHANGED <<env, call, run_no, run_data, summary, prev_summary,
                   protected_file_hashes, audit_runs_posts, audit_results_posts,
                   fallback_file, compliance>>

NextSample == SampleA03 \/ SampleA06

SpecSample == InitSample /\ [][NextSample]_vars

\* C22: a row whose value is text that does not parse, or that parses to
\* something other than a mapping, counts as "field absent" for that row
\* only: the sampled checks never abort and each records exactly one result.
C22_BadRowNeverAborts ==
    (call # Unset /\ pc \in {"A03", "A06", "returned", "crashed"}) =>
        /\ pc # "crashed"
        /\ pc = "returned" =>
              \A id \in {"A03", "A06", "A07"} :
                  Cardinality({k \in 1..Len(results) : results[k].check_id = id}) = 1

\* ------------------------------------------------------------------------
\* spot_check on an arbitrary reference set: of the named titles, `found`
\* have a row with a profile that can be read, `satisfying` of those meet
\* the threshold; the others are not found or their profile text does not
\* parse.
\* ------------------------------------------------------------------------
NamedTitles == 10

InitSpot ==
    /\ env = MakeEnv("ok", BaseSource, BaseRemote, BaseWeb, BasePost)
    /\ \E found \in 0..NamedTitles :
          \E satisfying \in 0..found, unparsable \in 0..(NamedTitles - found) :
              call = Some([found |-> found, satisfying |-> satisfying,
                           unparsable |-> unparsable])
    /\ pc = "spot_check"
    /\ run_no = 1
    /\ results = <<>>
    /\ exit_code = Unset
    /\ run_data = Unset
    /\ summary = Unset
    /\ prev_summary = Unset
    /\ protected_file_hashes = [f \in ProtectedFiles |-> env.approved]
    /\ audit_runs_posts = 0
    /\ audit_results_posts = <<>>
    /\ fallback_file = Unset
    /\ compliance = Unset

\* spot_check("A20", ..., dark_movies, "darkness", 6)
SpotCheck ==
    /\ pc = "spot_check"
    /\ results' = ExecStmt(results, "data_integrity",
                           spot_check("A20", call[1].found, call[1].satisfying))
    /\ pc' = "returned"
    /\ UNCHANGED <<env, call, run_no, exit_code, run_data, summary, prev_summary,
                   protected_file_hashes, audit_runs_posts, audit_results_posts,
                   fallback_file, compliance>>

NextSpot == SpotCheck

SpecSpot == InitSpot /\ [][NextSpot]_vars

\* C23: a reference-set spot-check records pass if and only if at least
\* 70% of the named titles satisfy the threshold; titles that are not found
\* or whose profile cannot be parsed do not count as satisfying.
C23_SeventyPercentOfNamed ==
    (call # Unset /\ pc = "returned" /\ Recorded(results, "A20")) =>
        ((results[1].status = "pass")
            <=> (call[1].satisfying * 100 >= 70 * NamedTitles))

\* C24: every result with status fail carries diagnostics: both an expected
\* and an actual value, or a detail string, whether it was created through
\* check, through prereq_fail or by add_result directly.
C24_FailHasDiagnostics ==
    \A i \in 1..Len(results) :
        results[i].status = "fail" =>
            \/ (results[i].expected_value # None /\ results[i].actual_value # None)
            \/ results[i].detail # None

\* a finished run with a fail of each kind: A02 failed by add_result with
\* values and no detail, a failed check with its generated detail, and a
\* prerequisite failure with its reason only
C24_Witness ==
    /\ pc = "done"
    /\ \E i \in 1..Len(results) :
          /\ results[i].check_id = "A02" /\ results[i].status = "fail"
          /\ results[i].expected_value = Text /\ results[i].detail = None
    /\ \E i \in 1..Len(results) :
          /\ results[i].check_id = "A01" /\ results[i].status = "fail"
          /\ results[i].expected_value = Text /\ results[i].detail = Text
    /\ \E i \in 1..Len(results) : IsPrereq(results[i])

\* the check ids that begin with the letter of a section
IdsWithLetter(letter) ==
    {CheckId(letter, n) : n \in 1..99}
    \cup (IF letter = "A" THEN {"A19_hi", "A19_en", "A19_ta", "A19_te"} ELSE {})

\* the same, by position of the section in section_map
IdsOfSection ==
    [k \in 1..Len(SectionKeys) |-> IdsWithLetter(section_map[SectionKeys[k]].letter)]

\* C25: every result's section is one of the ten keys of section_map and is
\* the one of the first letter of its check_id; the rows of the compliance
\* table partition the collection: their totals sum to the number of results.
C25_SectionOfLetter ==
    /\ \A i \in 1..Len(results) :
          /\ results[i].section \in {SectionKeys[k] : k \in 1..Len(SectionKeys)}
          /\ results[i].check_id \in IdsOfSection[SectionIndex(results[i].section)]
    /\ compliance # Unset =>
          compliance[1].total + compliance[2].total + compliance[3].total
          + compliance[4].total + compliance[5].total + compliance[6].total
          + compliance[7].total + compliance[8].total + compliance[9].total
          + compliance[10].total = Len(results)

\* a finished run whose table has a non-empty row for each of the ten
\* sections, more than 200 results in all
C25_Witness ==
    /\ pc = "done" /\ compliance # Unset
    /\ Len(results) > 200
    /\ \A k \in 1..Len(SectionKeys) : compliance[k].total > 0
    /\ compliance[10].total = 10

\* C26: no operation records a result with status skip: the skipped count
\* is 0, every section's skip count is 0 and every row of the compliance
\* table is OK, whatever the inputs.
C26_NeverSkip ==
    /\ \A i \in 1..Len(results) : results[i].status # "skip"
    /\ run_data # Unset => run_data[1].skipped = 0
    /\ summary # Unset => summary[1].skipped = 0
    /\ compliance # Unset =>
          \A k \in 1..Len(SectionKeys) :
              compliance[k].skips = 0 /\ compliance[k].status = "OK"

\* a finished run without a source tree: the prerequisites of sections B,
\* C, D and G are missing, the table has been printed
C26_Witness ==
    /\ pc = "done" /\ ~repo_set
    /\ compliance # Unset /\ summary # Unset
    /\ \A id \in {"B01", "C01", "D01", "G25"} :
          \E i \in 1..Len(results) :
              results[i].check_id = id /\ IsPrereq(results[i])
    /\ compliance[7].total = 25 /\ compliance[7].status = "OK"

\* C27: with the URL or the service-role key missing, main exits with code 1
\* before any section runs: the result collection stays empty, nothing is
\* posted or patched remotely, no summary is published and no fallback file
\* is written.
C27_MissingConfigExits ==
    env.config = "missing" =>
        /\ pc \in {"main", "done"}
        /\ pc = "done" => exit_code = Some(1)
        /\ results = <<>>
        /\ run_data = Unset /\ summary = Unset /\ compliance = Unset
        /\ audit_runs_posts = 0 /\ audit_results_posts = <<>>
        /\ fallback_file = Unset
        /\ protected_file_hashes = [f \in ProtectedFiles |-> env.approved]

\* the second invocation without configuration has exited
C27_Witness ==
    /\ env.config = "missing" /\ run_no = 2
    /\ pc = "done" /\ exit_code = Some(1)
    /\ results = <<>> /\ summary = Unset /\ fallback_file = Unset

\* the condition of the else branches of run_section_b: the tree is unset or
\* not a directory, or the engine file is not found in it
EngineMissing == ~(repo_set /\ repo_isdir /\ find_file)

\* C28: whenever the source tree is unavailable (unset or not a directory)
\* or the engine file is not found in it, section B, once it has run, has
\* recorded each of its source-dependent checks as fail with severity
\* critical; the summary, once computed, has critical_failures > 0; and the
\* run never ends with an exit code other than 1.
C28_EngineMissingIsCritical ==
    EngineMissing =>
        /\ (env.config = "ok" /\ \E k \in 3..Len(PcOrder) : pc = PcOrder[k]) =>
              \A n \in 1..Len(B_source_ids) :
                  \E i \in 1..Len(results) :
                      /\ results[i].check_id = B_source_ids[n]
                      /\ results[i].section = "engine_invariants"
                      /\ results[i].status = "fail"
                      /\ results[i].severity = "critical"
        /\ run_data # Unset => run_data[1].critical_failures >= Len(B_source_ids)
        /\ summary # Unset => summary[1].critical_failures >= Len(B_source_ids)
        /\ Finished => exit_code = Some(1)
        /\ exit_code # Some(0)

\* a published run over a tree that is a directory without the engine file:
\* the sweep has recorded B29, the run reached the exit decision and left
\* with 1
C28_Witness ==
    /\ repo_set /\ repo_isdir /\ ~find_file
    /\ env.config = "ok" /\ pc = "done" /\ exit_code = Some(1)
    /\ summary # Unset /\ summary[1].critical_failures >= Len(B_source_ids)
    /\ \E i \in 1..Len(results) :
          results[i].check_id = "B29" /\ IsPrereq(results[i])
             /\ results[i].severity = "critical"

\* no approved hash can be taken from the reply: the data is empty (no row,
\* or the query failed), or the row holds the pending marker or no value
NoApprovedHash(stored) ==
    HashQuery(stored).data = 0 \/ stored \in {"PENDING_FIRST_RUN", "null"}

\* the baseline record of a hash check: pass, with the detail only
IsBaseline(r) ==
    r.status = "pass" /\ r.expected_value = None /\ r.actual_value = None
       /\ r.detail = Text

\* C29: the hash checks D07-D10 and D18 are trust-on-first-use. When section
\* D runs over a tree in which the file is found and can be hashed, then for
\* each protected file: if no approved hash can be taken from the stored row
\* (no row, the pending marker, no value, or empty data for any reason) the
\* check records the baseline pass and the PATCH leaves the current hash in
\* the row when there is one; otherwise the check is a comparison that
\* passes iff the stored hash is the current one.
C29_TrustOnFirstUse ==
    [][(pc = "run_section_d" /\ repo_set /\ repo_isdir /\ find_file /\ readable) =>
          \A f \in ProtectedFiles :
              LET stored == protected_file_hashes[f]
                  id == HashCheckOf[f]
              IN  \E i \in 1..Len(results') :
                      /\ results'[i].check_id = id
                      /\ IF NoApprovedHash(stored)
                         THEN /\ IsBaseline(results'[i])
                              /\ HashQuery(stored).data > 0 =>
                                     protected_file_hashes'[f] = "current"
                         ELSE /\ ~IsBaseline(results'[i])
                              /\ results'[i].status = "pass" <=> stored = "current"]_vars

\* ------------------------------------------------------------------------
\* F10-F12, F15 and F19 of run_section_f, each query with an outcome of its
\* own.  `call` holds the outcomes of the three table queries and of the
\* query of F15, and the local variable r of run_section_f.
\* ------------------------------------------------------------------------
TableOutcomes == {"ok", "partial", "missing", "denied", "fail"}

\* for cid, table in [("F10", ...), ("F11", ...), ("F12", ...)]
TableChecks == <<"F10", "F11", "F12">>

\* supabase_query(f"{table}?select=id&limit=1") on one attempt
table_query_attempt(outcome) ==
    CASE outcome = "ok" -> [data |-> 1, count |-> 1, status |-> 200]
      [] outcome = "partial" -> [data |-> 1, count |-> 20000, status |-> 206]
      [] outcome = "missing" -> [data |-> 0, count |-> NoCount, status |-> 404]
      [] outcome = "denied" -> [data |-> 0, count |-> NoCount, status |-> 401]
      [] outcome = "fail" -> [data |-> 0, count |-> NoCount, status |-> 0]

\* run_section_f after F09: r holds the reply of the query of F09
InitKeys ==
    /\ env = MakeEnv("ok", BaseSource, BaseRemote, BaseWeb, BasePost)
    /\ \E t1 \in TableOutcomes, t2 \in TableOutcomes, t3 \in TableOutcomes,
          q \in QueryOutcomes, r0 \in QueryOutcomes :
          call = Some([tables |-> <<t1, t2, t3>>, perf |-> q,
                       r |-> supabase_query_attempt(r0)])
    /\ pc = "F10"
    /\ run_no = 1
    /\ results = <<>>
    /\ exit_code = Unset
    /\ run_data = Unset
    /\ summary = Unset
    /\ prev_summary = Unset
    /\ protected_file_hashes = [f \in ProtectedFiles |-> env.approved]
    /\ audit_runs_posts = 0
    /\ audit_results_posts = <<>>
    /\ fallback_file = Unset
    /\ compliance = Unset

\* one pass of the loop: r = supabase_query(table); check(cid, ..., supabase_ok(r))
TableExists ==
    /\ \E k \in 1..Len(TableChecks) :
          /\ pc = TableChecks[k]
          /\ LET r == table_query_attempt(call[1].tables[k])
             IN  /\ call' = Some([call[1] EXCEPT !.r = r])
                 /\ results' = check(results, TableChecks[k], "backend", "high",
                                     supabase_ok(r), Text, Text, None)
          /\ pc' = IF k < Len(TableChecks) THEN TableChecks[k + 1] ELSE "F15"
    /\ UNCHANGED <<env, run_no, exit_code, run_data, summary, prev_summary,
                   protected_file_hashes, audit_runs_posts, audit_results_posts,
                   fallback_file, compliance>>

\* F15: the reply of its query is dropped, only the latency is checked
Performance ==
    /\ pc = "F15"
    /\ results' = check(results, "F15", "backend", "high", ~env.slow, Text, Text, None)
    /\ pc' = "F19"
    /\ UNCHANGED <<env, call, run_no, exit_code, run_data, summary, prev_summary,
                   protected_file_hashes, audit_runs_posts, audit_results_posts,
                   fallback_file, compliance>>

\* variant of KeysValid: F19 looks at the reply of the last query made
KeysValid_LastQuery ==
    /\ pc = "F19"
    /\ results' = check(results, "F19", "backend", "critical",
                        supabase_ok(supabase_query_attempt(call[1].perf)),
                        Text, Text, None)
    /\ pc' = "returned"
    /\ UNCHANGED <<env, call, run_no, exit_code, run_data, summary, prev_summary,
                   protected_file_hashes, audit_runs_posts, audit_results_posts,
                   fallback_file, compliance>>

\* F19: check("F19", ..., supabase_ok(r), ...) on the r the loop left
KeysValid ==
    /\ pc = "F19"
    /\ results' = check(results, "F19", "backend", "critical",
                        supabase_ok(call[1].r), Text, Text, None)
    /\ pc' = "returned"
    /\ UNCHANGED <<env, call, run_no, exit_code, run_data, summary, prev_summary,
                   protected_file_hashes, audit_runs_posts, audit_results_posts,
                   fallback_file, compliance>>

NextKeys == TableExists \/ Performance \/ KeysValid

SpecKeys == InitKeys /\ [][NextKeys]_vars

\* C30: F19 is evaluated on the reply of the last table query of the
\* F10-F12 loop, not on a query of its own: whenever F19 is recorded, F12 is
\* recorded before it with the same status, whatever the other queries
\* answered.
C30_F19FollowsF12 ==
    Recorded(results, "F19") =>
        /\ Recorded(results, "F12")
        /\ StatusOf(results, "F19") = StatusOf(results, "F12")
        /\ (StatusOf(results, "F19") = "pass") <=>
               supabase_ok(table_query_attempt(call[1].tables[3]))

\* the third table is missing while the other tables and the query of F15
\* answer: F12 and F19 both fail
C30_Witness ==
    /\ call # Unset /\ pc = "returned"
    /\ call[1].tables = <<"ok", "partial", "missing">> /\ call[1].perf = "ok"
    /\ StatusOf(results, "F10") = "pass" /\ StatusOf(results, "F11") = "pass"
    /\ StatusOf(results, "F12") = "fail" /\ StatusOf(results, "F19") = "fail"

====
